---- MODULE Spec2Model ----
(***************************************************************************)
(* A model of BookCreator (src/scripts/BookCreator.jsx): the ISBN/EAN-13   *)
(* codec, the YAML parser and serializer, and the Pandoc field mapper.     *)
(* Text is modelled as TLA+ strings, read character by character with      *)
(* SubSeq, so that formatting and parsing are computed as the code does.   *)
(***************************************************************************)
EXTENDS Integers, Sequences, FiniteSets, TLC

VARIABLES
    isbnPc,      \* position of the ISBN scenario: "idle", "input", "validated", "encoded"
    isbnInput,   \* the raw string handed to BookUtils.ISBN.validate
    isbnResult,  \* the object validate returned
    barcode,     \* the pattern encodeEAN13 returned
    yamlPc,      \* position of the YAML scenario: "idle", "value", "text", "scan", "done"
    yamlFrom,    \* where the text comes from: "value" (stringify) or "text" (a file)
    yamlValue,   \* the object handed to YAMLParser.stringify
    yamlText,    \* the string handed to YAMLParser.parse
    ctx,         \* the ParseContext of the running parse
    yamlResult,  \* the object parse returned
    keyIndent,   \* history: the indentation of the key line that opened the last multiline scalar
    mapPc,       \* position of the mapper scenario: "idle", "export", "import", "done"
    bookInfo,    \* the metadata handed to BookUtils.File.exportYAML
    yamlData,    \* the object exportYAML hands to stringify
    pandocData,  \* the parsed metadata handed to PandocMapper.mapToBookCreator
    mapped,      \* the object mapToBookCreator returned
    genPc,       \* position of Book.generate: "idle", "start", "before", "chapters", "after", "cover", "done"
    templateFolder,  \* the names of the .indd files of the template folder
    mdFolder,    \* the names of the .md files of the text folder
    injecting,   \* markdownOptions.injectMarkdown && markdownOptions.hasInputFiles
    templates,   \* Book.templates, the classified template files
    allMdFiles,  \* the sorted list generate walks
    loopIndex,   \* the index of the running loop of generate, counted from 0
    documents,   \* the calls of _generateDocument so far, in order
    selPc,       \* position of one template selection: "idle", "type", "keywords", "score", "choose", "done"
    mdFileName,  \* the name of the Markdown file a template is selected for
    templateType,    \* what _determineTemplateType returned
    mdKeywords,  \* _extractKeywords of the Markdown file name
    allTemplates,    \* the candidates of _selectBestTemplate with their keywords
    tIndex,      \* the index t of the scoring loop, counted from 0
    scores,      \* the scores computed so far, in candidate order
    bestMatch,   \* the best candidate so far
    bestScore,   \* its score
    selectedTemplate,    \* what _selectBestTemplate returned
    textPc,      \* position of replaceTextPlaceholders: "idle", "open", "frames", "done"
    docInfo,     \* the bookInfo handed to replaceTextPlaceholders
    displayOptions,  \* the displayOptions handed to it
    originalFrames,  \* the contents of doc.textFrames before the call
    textFrames,  \* the contents of doc.textFrames
    frameIndex,  \* the index i of the loop over the text frames, counted from 0
    convPc,      \* position of one call of convertValue: "idle", "input", "converted"
    convInput,   \* the string handed to YAMLParser.utils.convertValue
    convOutput   \* the value it returned

isbnVars == <<isbnPc, isbnInput, isbnResult, barcode>>

yamlVars == <<yamlPc, yamlFrom, yamlValue, yamlText, ctx, yamlResult, keyIndent>>

mapVars == <<mapPc, bookInfo, yamlData, pandocData, mapped>>

bookVars == <<genPc, templateFolder, mdFolder, injecting, templates,
              allMdFiles, loopIndex, documents>>

selVars == <<selPc, mdFileName, templateType, mdKeywords, allTemplates,
             tIndex, scores, bestMatch, bestScore, selectedTemplate>>

textVars == <<textPc, docInfo, displayOptions, originalFrames, textFrames, frameIndex>>

convVars == <<convPc, convInput, convOutput>>

vars == <<isbnVars, yamlVars, mapVars, bookVars, selVars, textVars, convVars>>

(***************************************************************************)
(* Strings                                                                 *)
(***************************************************************************)

\* JavaScript's undefined, where a string-valued property is absent.
Undefined == "<undefined>"

\* The characters i..j of s (counted from 1), clamped to the string as
\* String.substring clamps its arguments.
Slice(s, i, j) ==
    LET from == IF i < 1 THEN 1 ELSE i
        to   == IF j > Len(s) THEN Len(s) ELSE j
    IN IF from > to THEN "" ELSE SubSeq(s, from, to)

\* s.charAt(i - 1): the empty string outside the string.
Ch(s, i) == Slice(s, i, i)

DigitChars == {"0", "1", "2", "3", "4", "5", "6", "7", "8", "9"}

IsDigit(c) == c \in DigitChars

\* parseInt of one decimal digit character.
DigitVal(c) ==
    CASE c = "0" -> 0 [] c = "1" -> 1 [] c = "2" -> 2 [] c = "3" -> 3
      [] c = "4" -> 4 [] c = "5" -> 5 [] c = "6" -> 6 [] c = "7" -> 7
      [] c = "8" -> 8 [] c = "9" -> 9

\* String(d) for a number d in 0..9.
DigitChar(d) == Ch("0123456789", d + 1)

AllChars(s, S) == \A i \in 1..Len(s) : Ch(s, i) \in S

\* str.replace(/\D/g, "")
RECURSIVE StripNonDigits(_)
StripNonDigits(s) ==
    IF s = "" THEN ""
    ELSE (IF IsDigit(Ch(s, 1)) THEN Ch(s, 1) ELSE "")
             \o StripNonDigits(Slice(s, 2, Len(s)))

(***************************************************************************)
(* BookUtils.ISBN                                                          *)
(***************************************************************************)

\* The loop of calculateCheckDigit: the weighted sum of code.charAt(0..n-1).
RECURSIVE WeightedSum(_, _)
WeightedSum(code, n) ==
    IF n = 0 THEN 0
    ELSE WeightedSum(code, n - 1)
           + (IF (n - 1) % 2 = 0 THEN DigitVal(Ch(code, n))
                                 ELSE DigitVal(Ch(code, n)) * 3)

calculateCheckDigit(code) == (10 - (WeightedSum(code, 12) % 10)) % 10

isEAN13Valid(input) ==
    /\ Len(input) = 13
    /\ DigitVal(Ch(input, 13)) = calculateCheckDigit(Slice(input, 1, 12))

\* /^978-[\d-]*[X-]+[\d-]*$/i
placeholderPattern(s) ==
    /\ Len(s) >= 5
    /\ Slice(s, 1, 4) = "978-"
    /\ \E i \in 5..Len(s) : \E j \in i..Len(s) :
          /\ AllChars(Slice(s, 5, i - 1), DigitChars \cup {"-"})
          /\ AllChars(Slice(s, i, j), {"X", "x", "-"})
          /\ AllChars(Slice(s, j + 1, Len(s)), DigitChars \cup {"-"})

\* validate with the 12-digit branch returning the digits without the check digit.
validate_NoCheckDigit(isbnIn) ==
    IF placeholderPattern(isbnIn)
    THEN [valid |-> TRUE, result |-> isbnIn, message |-> "Placeholder ISBN accepted"]
    ELSE LET isbnDigits == StripNonDigits(isbnIn) IN
         IF Len(isbnDigits) < 12
         THEN [valid |-> FALSE, result |-> Undefined,
               message |-> "An ISBN must contain at least 12 digits."]
         ELSE IF Len(isbnDigits) = 12
         THEN [valid |-> TRUE, result |-> isbnDigits,
               message |-> "Check digit added: "
                               \o DigitChar(calculateCheckDigit(isbnDigits))]
         ELSE IF Len(isbnDigits) = 13 /\ isEAN13Valid(isbnDigits)
         THEN [valid |-> TRUE, result |-> isbnDigits, message |-> Undefined]
         ELSE [valid |-> FALSE, result |-> Undefined, message |-> "Invalid ISBN format."]

validate(isbnIn) ==
    IF placeholderPattern(isbnIn)
    THEN [valid |-> TRUE, result |-> isbnIn, message |-> "Placeholder ISBN accepted"]
    ELSE LET isbnDigits == StripNonDigits(isbnIn) IN
         IF Len(isbnDigits) < 12
         THEN [valid |-> FALSE, result |-> Undefined,
               message |-> "An ISBN must contain at least 12 digits."]
         ELSE IF Len(isbnDigits) = 12
         THEN LET checkDigit == calculateCheckDigit(isbnDigits) IN
              [valid |-> TRUE, result |-> isbnDigits \o DigitChar(checkDigit),
               message |-> "Check digit added: " \o DigitChar(checkDigit)]
         ELSE IF Len(isbnDigits) = 13
         THEN IF ~isEAN13Valid(isbnDigits)
              THEN LET correctDigit == calculateCheckDigit(Slice(isbnDigits, 1, 12)) IN
                   [valid |-> FALSE, result |-> Undefined,
                    message |-> "Invalid check digit. It should be: "
                                    \o DigitChar(correctDigit)]
              ELSE [valid |-> TRUE, result |-> isbnDigits, message |-> Undefined]
         ELSE [valid |-> FALSE, result |-> Undefined, message |-> "Invalid ISBN format."]

LEFT_ODD == <<"0001101", "0011001", "0010011", "0111101", "0100011",
              "0110001", "0101111", "0111011", "0110111", "0001011">>

LEFT_EVEN == <<"0100111", "0110011", "0011011", "0100001", "0011101",
               "0111001", "0000101", "0010001", "0001001", "0010111">>

RIGHT == <<"1110010", "1100110", "1101100", "1000010", "1011100",
           "1001110", "1010000", "1000100", "1001000", "1110100">>

PARITY == <<"OOOOOO", "OOEOEE", "OOEEOE", "OOEEEO", "OEOOEE",
            "OEEOOE", "OEEEOO", "OEOEOE", "OEOEEO", "OEEOEO">>

\* The first loop of encodeEAN13: the patterns of code.charAt(1..n).
RECURSIVE LeftHalf(_, _, _)
LeftHalf(code, parity, n) ==
    IF n = 0 THEN ""
    ELSE LeftHalf(code, parity, n - 1)
           \o (IF Ch(parity, n) = "O"
               THEN LEFT_ODD[DigitVal(Ch(code, n + 1)) + 1]
               ELSE LEFT_EVEN[DigitVal(Ch(code, n + 1)) + 1])

\* The second loop of encodeEAN13: the patterns of code.charAt(7..6+n).
RECURSIVE RightHalf(_, _)
RightHalf(code, n) ==
    IF n = 0 THEN ""
    ELSE RightHalf(code, n - 1) \o RIGHT[DigitVal(Ch(code, 7 + n)) + 1]

\* encodeEAN13 with the first loop stopping one digit early (i < 6).
encodeEAN13_ShortLeftLoop(code) ==
    LET parity == PARITY[DigitVal(Ch(code, 1)) + 1] IN
    "101" \o LeftHalf(code, parity, 5) \o "01010" \o RightHalf(code, 6) \o "101"

encodeEAN13(code) ==
    LET parity == PARITY[DigitVal(Ch(code, 1)) + 1] IN
    "101" \o LeftHalf(code, parity, 6) \o "01010" \o RightHalf(code, 6) \o "101"

(***************************************************************************)
(* YAMLParser.utils and the helpers of ParseContext                        *)
(***************************************************************************)

\* The characters the regex class \s matches, among those the model uses.
Whitespace == {" ", "\t", "\n", "\r"}

\* The number of leading characters of s that belong to S.
RECURSIVE LeadingRun(_, _)
LeadingRun(s, S) ==
    IF s = "" \/ Ch(s, 1) \notin S THEN 0
    ELSE 1 + LeadingRun(Slice(s, 2, Len(s)), S)

\* The number of trailing characters of s that belong to S.
RECURSIVE TrailingRun(_, _)
TrailingRun(s, S) ==
    IF s = "" \/ Ch(s, Len(s)) \notin S THEN 0
    ELSE 1 + TrailingRun(Slice(s, 1, Len(s) - 1), S)

DropLeading(s, S) == Slice(s, LeadingRun(s, S) + 1, Len(s))

DropTrailing(s, S) == Slice(s, 1, Len(s) - TrailingRun(s, S))

\* str.replace(/^\s+|\s+$/g, '')
trim(str) == DropTrailing(DropLeading(str, Whitespace), Whitespace)

\* The 1-based position of the first occurrence of character c in s, 0 if none.
RECURSIVE IndexFrom(_, _, _)
IndexFrom(s, c, i) ==
    IF i > Len(s) THEN 0
    ELSE IF Ch(s, i) = c THEN i
    ELSE IndexFrom(s, c, i + 1)

IndexOfChar(s, c) == IndexFrom(s, c, 1)

HasChar(s, S) == \E i \in 1..Len(s) : Ch(s, i) \in S

\* The values of the tagged union: a scalar carries its text in s (a number its
\* JavaScript decimal representation), an array its items, an object its
\* key/value pairs in insertion order.
Str(s) == [t |-> "string", s |-> s, items |-> <<>>, pairs |-> <<>>]
Num(s) == [t |-> "number", s |-> s, items |-> <<>>, pairs |-> <<>>]
Bool(b) == [t |-> "boolean", s |-> IF b THEN "true" ELSE "false",
            items |-> <<>>, pairs |-> <<>>]
NullV == [t |-> "null", s |-> "null", items |-> <<>>, pairs |-> <<>>]
Arr(items) == [t |-> "array", s |-> "", items |-> items, pairs |-> <<>>]
Obj(pairs) == [t |-> "object", s |-> "", items |-> <<>>, pairs |-> pairs]

NaN == "NaN"

StripLeadingZeros(d) ==
    IF AllChars(d, {"0"}) THEN "0" ELSE DropLeading(d, {"0"})

StripTrailingZeros(d) == DropTrailing(d, {"0"})

\* parseFloat(value), as the decimal text JavaScript prints for the number, or
\* NaN: leading whitespace is skipped, then an optional sign, digits and an
\* optional fraction are read, and whatever follows is ignored.  (Exponents and
\* Infinity are not modelled: no modelled text has them.)

\* The text of the number with the given sign and magnitude: -0 prints as 0.
SignedText(negative, text) ==
    IF negative /\ text # "0" THEN "-" \o text ELSE text

\* The fraction as printed: nothing when it has no non-zero digit.
FractionText(fracPart) == IF fracPart = "" THEN "" ELSE "." \o fracPart

\* The number read from the digits before and after the point.
ParseNumber(negative, intDigits, fracDigits) ==
    IF intDigits = "" /\ fracDigits = "" THEN NaN
    ELSE SignedText(negative,
                    StripLeadingZeros(intDigits)
                        \o FractionText(StripTrailingZeros(fracDigits)))

\* The digits after the point that follows the first intLen characters of body.
FractionDigits(body, intLen) ==
    IF Ch(body, intLen + 1) = "."
    THEN Slice(body, intLen + 2,
               intLen + 1 + LeadingRun(Slice(body, intLen + 2, Len(body)), DigitChars))
    ELSE ""

ParseUnsigned(negative, body, intLen) ==
    ParseNumber(negative, Slice(body, 1, intLen), FractionDigits(body, intLen))

ParseSigned(negative, body) ==
    ParseUnsigned(negative, body, LeadingRun(body, DigitChars))

ParseTrimmed(str) ==
    ParseSigned(Ch(str, 1) = "-",
                IF Ch(str, 1) \in {"-", "+"} THEN Slice(str, 2, Len(str)) ELSE str)

parseFloat(value) == ParseTrimmed(DropLeading(value, Whitespace))

\* /^0[0-9]+/.test(value)
ZeroPadded(value) ==
    Len(value) >= 2 /\ Ch(value, 1) = "0" /\ IsDigit(Ch(value, 2))

\* value.substr(1, value.length - 2)
Inner(value) == Slice(value, 2, Len(value) - 1)

\* str.split(',')
RECURSIVE SplitComma(_)
SplitComma(s) ==
    LET p == IndexOfChar(s, ",") IN
    IF p = 0 THEN <<s>>
    ELSE <<Slice(s, 1, p - 1)>> \o SplitComma(Slice(s, p + 1, Len(s)))

RECURSIVE convertValue(_)
convertValue(value) ==
    IF trim(value) = "" THEN Str("")
    ELSE IF value \in {"true", "yes", "on"} THEN Bool(TRUE)
    ELSE IF value \in {"false", "no", "off"} THEN Bool(FALSE)
    ELSE IF value \in {"null", "~"} THEN NullV
    ELSE IF parseFloat(value) # NaN /\ ~ZeroPadded(value) THEN Num(parseFloat(value))
    ELSE IF \/ Ch(value, 1) = "\"" /\ Ch(value, Len(value)) = "\""
            \/ Ch(value, 1) = "'" /\ Ch(value, Len(value)) = "'"
    THEN Str(Inner(value))
    ELSE IF Ch(value, 1) = "[" /\ Ch(value, Len(value)) = "]"
    THEN LET parts == SplitComma(Inner(value)) IN
         Arr([i \in 1..Len(parts) |-> convertValue(trim(parts[i]))])
    ELSE Str(value)

UpperCase == "ABCDEFGHIJKLMNOPQRSTUVWXYZ"

LowerCase == "abcdefghijklmnopqrstuvwxyz"

\* str.toLowerCase(), also the effect of the regex flag i.
RECURSIVE toLowerCase(_)
toLowerCase(s) ==
    IF s = "" THEN ""
    ELSE LET p == IndexOfChar(UpperCase, Ch(s, 1)) IN
         (IF p = 0 THEN Ch(s, 1) ELSE Ch(LowerCase, p))
             \o toLowerCase(Slice(s, 2, Len(s)))

\* The characters of the class of needsQuotes, but for the backquote, which
\* no modelled text contains.
QuoteChars == {":", "#", "{", "}", "[", "]", ",", "&", "*", "!", "|", ">",
               "'", "\"", "%", "@"}

needsQuotes(str) ==
    \/ parseFloat(str) # NaN
    \/ toLowerCase(str) \in {"true", "false", "yes", "no", "on", "off", "null"}
    \/ HasChar(str, QuoteChars)

\* str.replace(/"/g, '\\"').replace(/\n/g, '\\n')
RECURSIVE escapeString(_)
escapeString(str) ==
    IF str = "" THEN ""
    ELSE (IF Ch(str, 1) = "\"" THEN "\\\""
          ELSE IF Ch(str, 1) = "\n" THEN "\\n"
          ELSE Ch(str, 1)) \o escapeString(Slice(str, 2, Len(str)))

\* The last line break among the first run characters of rest, 0 if none.
RECURSIVE LastBreak(_, _)
LastBreak(rest, run) ==
    IF run = 0 THEN 0
    ELSE IF Ch(rest, run) = "\n" THEN run
    ELSE LastBreak(rest, run - 1)

\* str.replace(/^---\s*\n/, ''): the match ends at the last line break of the
\* whitespace that follows the dashes.
DropOpening(str, lastNL) ==
    IF lastNL = 0 THEN str ELSE Slice(str, 4 + lastNL, Len(str))

RemoveOpening(str) ==
    IF Slice(str, 1, 3) = "---"
    THEN DropOpening(str, LastBreak(Slice(str, 4, Len(str)),
                                    LeadingRun(Slice(str, 4, Len(str)), Whitespace)))
    ELSE str

\* str.replace(/\n---\s*$/, '')
RemoveClosing(str) ==
    LET closers == {i \in 1..Len(str) :
                       /\ Slice(str, i, i + 3) = "\n---"
                       /\ AllChars(Slice(str, i + 4, Len(str)), Whitespace)}
    IN IF closers = {} THEN str
       ELSE Slice(str, 1, (CHOOSE i \in closers : TRUE) - 1)

removeFrontMatterDelimiters(str) == RemoveClosing(RemoveOpening(str))

\* str.split(/\r\n|\r|\n/)
RECURSIVE SplitLines(_)
SplitLines(str) ==
    LET breaks == {i \in 1..Len(str) : Ch(str, i) \in {"\r", "\n"}} IN
    IF breaks = {} THEN <<str>>
    ELSE LET p    == CHOOSE i \in breaks : \A j \in breaks : i <= j
             skip == IF Slice(str, p, p + 1) = "\r\n" THEN 2 ELSE 1
         IN <<Slice(str, 1, p - 1)>> \o SplitLines(Slice(str, p + skip, Len(str)))

\* A JavaScript object as its key/value pairs in insertion order.
ObjIndex(pairs, key) ==
    IF \E i \in 1..Len(pairs) : pairs[i].k = key
    THEN CHOOSE i \in 1..Len(pairs) : pairs[i].k = key
    ELSE 0

ObjHas(pairs, key) == ObjIndex(pairs, key) # 0

ObjGet(pairs, key) == pairs[ObjIndex(pairs, key)].v

\* obj[key] = value
ObjSet(pairs, key, value) ==
    IF ObjHas(pairs, key)
    THEN [pairs EXCEPT ![ObjIndex(pairs, key)].v = value]
    ELSE Append(pairs, [k |-> key, v |-> value])

ObjKeys(pairs) == {pairs[i].k : i \in 1..Len(pairs)}

\* JavaScript's null where a key (a string) is expected.
NullKey == "<null>"

\* The property name obj[key] uses: null is converted to the string "null".
ToKey(key) == IF key = NullKey THEN "null" ELSE key

\* if (ctx.currentKey): neither null nor the empty string.
Truthy(key) == key # NullKey /\ key # ""

getLineIndent(line) == LeadingRun(line, Whitespace)

isEmptyOrComment(line) ==
    line = "" \/ trim(line) = "" \/ Ch(trim(line), 1) = "#"

\* line && line.match(/^\s*- /)
isListItem(line) ==
    Slice(line, getLineIndent(line) + 1, getLineIndent(line) + 2) = "- "

\* line.match(/^([^:]+):\s*(.*?)$/): ok is FALSE where the code returns null.
getKeyValuePair(line) ==
    LET p == IndexOfChar(line, ":") IN
    IF p < 2 THEN [ok |-> FALSE, key |-> "", value |-> ""]
    ELSE [ok |-> TRUE, key |-> trim(Slice(line, 1, p - 1)),
          value |-> trim(Slice(line, p + 1, Len(line)))]

\* line.replace(/^\s*-\s*/, "") on a list item.
StripDash(line) ==
    DropLeading(Slice(line, getLineIndent(line) + 2, Len(line)), Whitespace)

\* trimmedLine.match(/^[^:]+:\s*.+$/)
LooksLikePair(trimmedLine) ==
    LET p == IndexOfChar(trimmedLine, ":") IN p >= 2 /\ p < Len(trimmedLine)

\* new ParseContext(yamlString); lineIndex counts from 0 as in the code, and
\* threw records an exception escaping parse.
ParseContext(yamlString) ==
    [lines |-> SplitLines(removeFrontMatterDelimiters(yamlString)),
     result |-> <<>>,
     currentKey |-> NullKey,
     currentIndent |-> 0,
     inMultiline |-> FALSE,
     multilineValue |-> "",
     literalBlock |-> FALSE,
     inList |-> FALSE,
     currentList |-> <<>>,
     inObject |-> FALSE,
     currentObject |-> <<>>,
     lineIndex |-> 0,
     inComplexList |-> FALSE,
     currentComplexItem |-> NullV,
     complexItemIndent |-> 0,
     threw |-> FALSE]

\* A context of no parse, for the time before parse is called.
NoContext == [ParseContext("") EXCEPT !.lines = <<>>]

\* ctx.getCurrentLine() # null
HasLine(c) == c.lineIndex < Len(c.lines)

\* ctx.lines[i], i counted from 0.
LineAt(c, i) == c.lines[i + 1]

\* line = ctx.getNextLine(); continue
Advance(c) == [c EXCEPT !.lineIndex = @ + 1]

\* obj[pair.key] = utils.convertValue(pair.value)
SetPair(obj, pair) == ObjSet(obj, pair.key, convertValue(pair.value))

\* The look-ahead loop of a complex list item: the properties on the lines
\* after it, and the index of the first line it does not consume.
RECURSIVE LookAhead(_, _, _, _)
LookAhead(c, nextIndex, lineIndent, complexObj) ==
    IF nextIndex < Len(c.lines)
          /\ ~isListItem(LineAt(c, nextIndex))
          /\ getLineIndent(LineAt(c, nextIndex)) > lineIndent
    THEN LET nextPair == getKeyValuePair(LineAt(c, nextIndex)) IN
         LookAhead(c, nextIndex + 1, lineIndent,
                   IF nextPair.ok THEN SetPair(complexObj, nextPair) ELSE complexObj)
    ELSE [nextIndex |-> nextIndex, complexObj |-> complexObj]

\* Each stage of one iteration of the scan loop yields the context it leaves
\* and whether it ended the iteration (continue) or fell through.

\* PushComplexItem without the line = ctx.getNextLine() that follows
\* ctx.lineIndex = nextIndex - 1.
PushComplexItem_NoNextLine(c, ahead) ==
    [c |-> [c EXCEPT !.currentList = Append(@, Obj(ahead.complexObj)),
                     !.lineIndex = ahead.nextIndex - 1],
     continue |-> TRUE]

\* ctx.currentList.push(complexObj); ctx.lineIndex = nextIndex - 1;
\* line = ctx.getNextLine(); continue
PushComplexItem(c, ahead) ==
    [c |-> [c EXCEPT !.currentList = Append(@, Obj(ahead.complexObj)),
                     !.lineIndex = ahead.nextIndex],
     continue |-> TRUE]

\* A list item, its dash removed: a complex item or a plain value.
ListItem(c, lineIndent, trimmedLine) ==
    IF LooksLikePair(trimmedLine)
    THEN PushComplexItem(c, LookAhead(c, c.lineIndex + 1, lineIndent,
                                      SetPair(<<>>, getKeyValuePair(trimmedLine))))
    ELSE [c |-> Advance([c EXCEPT !.currentList =
                                     Append(@, convertValue(trimmedLine))]),
          continue |-> TRUE]

\* if (ctx.inList) { ... }
ListStage(c, line, lineIndent) ==
    IF ~c.inList THEN [c |-> c, continue |-> FALSE]
    ELSE IF isListItem(line) THEN ListItem(c, lineIndent, StripDash(line))
    ELSE IF lineIndent <= c.currentIndent
    THEN [c |-> [c EXCEPT !.result = ObjSet(@, ToKey(c.currentKey), Arr(c.currentList)),
                          !.inList = FALSE,
                          !.currentList = <<>>,
                          !.currentKey = NullKey],
          continue |-> FALSE]
    ELSE [c |-> c, continue |-> FALSE]

\* A property line of the current complex item: writing a property of the
\* null currentComplexItem throws.
ComplexItemLine(c, itemPair) ==
    IF ~itemPair.ok THEN [c |-> Advance(c), continue |-> TRUE]
    ELSE IF c.currentComplexItem.t # "object"
    THEN [c |-> [c EXCEPT !.threw = TRUE], continue |-> TRUE]
    ELSE [c |-> Advance([c EXCEPT !.currentComplexItem = Obj(SetPair(@.pairs, itemPair))]),
          continue |-> TRUE]

\* if (ctx.inComplexList) { ... }
ComplexStage(c, line, lineIndent) ==
    IF ~c.inComplexList THEN [c |-> c, continue |-> FALSE]
    ELSE IF lineIndent > c.complexItemIndent
    THEN ComplexItemLine(c, getKeyValuePair(line))
    ELSE [c |-> [c EXCEPT !.currentList = Append(@, c.currentComplexItem),
                          !.inComplexList = FALSE,
                          !.currentComplexItem = NullV],
          continue |-> FALSE]

\* A line of the current nested object.
ObjectLine(c, objPair) ==
    [c |-> Advance(IF objPair.ok
                   THEN [c EXCEPT !.currentObject = SetPair(@, objPair)]
                   ELSE c),
     continue |-> TRUE]

\* if (ctx.inObject) { ... }
ObjectStage(c, line, lineIndent) ==
    IF ~c.inObject THEN [c |-> c, continue |-> FALSE]
    ELSE IF lineIndent > c.currentIndent \/ isListItem(line)
    THEN ObjectLine(c, getKeyValuePair(line))
    ELSE [c |-> [c EXCEPT !.result = ObjSet(@, ToKey(c.currentKey), Obj(c.currentObject)),
                          !.inObject = FALSE,
                          !.currentObject = <<>>,
                          !.currentKey = NullKey],
          continue |-> FALSE]

\* multilineValue += (literalBlock ? "\r" : " ") + lineContent, after the first.
MultilineLine(c, lineContent) ==
    [c |-> Advance([c EXCEPT !.multilineValue =
                       IF @ = "" THEN lineContent
                       ELSE @ \o (IF c.literalBlock THEN "\r" ELSE " ") \o lineContent]),
     continue |-> TRUE]

\* if (ctx.inMultiline) { ... }
MultilineStage(c, line) ==
    IF ~c.inMultiline THEN [c |-> c, continue |-> FALSE]
    ELSE IF getLineIndent(line) >= 2 /\ trim(line) # ""
    THEN MultilineLine(c, trim(line))
    ELSE [c |-> [c EXCEPT !.result = ObjSet(@, ToKey(c.currentKey), Str(c.multilineValue)),
                          !.inMultiline = FALSE,
                          !.literalBlock = FALSE,
                          !.currentKey = NullKey,
                          !.multilineValue = ""],
          continue |-> FALSE]

\* if (pair) { ctx.currentKey = pair.key; ... }: a list, a nested object or a
\* multiline value begins, or the value is stored.
KeyValue(c, pair, lineIndent) ==
    LET value == pair.value
        hasNext == c.lineIndex + 1 < Len(c.lines)
        keyed == [c EXCEPT !.currentKey = pair.key]
    IN IF value = "" /\ hasNext /\ isListItem(LineAt(c, c.lineIndex + 1))
       THEN Advance([keyed EXCEPT !.inList = TRUE,
                                  !.currentList = <<>>,
                                  !.currentIndent = lineIndent])
       ELSE IF /\ value = "" /\ hasNext
               /\ getLineIndent(LineAt(c, c.lineIndex + 1)) > lineIndent
               /\ ~isListItem(LineAt(c, c.lineIndex + 1))
       THEN Advance([keyed EXCEPT !.inObject = TRUE,
                                  !.currentObject = <<>>,
                                  !.currentIndent = lineIndent])
       ELSE IF value \in {"", "|", ">"}
       THEN Advance([keyed EXCEPT !.inMultiline = TRUE,
                                  !.multilineValue = "",
                                  !.literalBlock = (value = "|")])
       ELSE Advance([keyed EXCEPT !.result = SetPair(@, pair)])

\* var pair = ctx.getKeyValuePair(line); if (pair) { ... }; and the final
\* line = ctx.getNextLine() of a line that could not be processed.
KeyValueStage(c, pair, lineIndent) ==
    IF ~pair.ok THEN Advance(c) ELSE KeyValue(c, pair, lineIndent)

\* A stage runs on what the stage before it left, unless that one continued.
AfterList(c, line, lineIndent) == ListStage(c, line, lineIndent)

AfterComplex(r, line, lineIndent) ==
    IF r.continue THEN r ELSE ComplexStage(r.c, line, lineIndent)

AfterObject(r, line, lineIndent) ==
    IF r.continue THEN r ELSE ObjectStage(r.c, line, lineIndent)

AfterMultiline(r, line) ==
    IF r.continue THEN r ELSE MultilineStage(r.c, line)

AfterKeyValue(r, line, lineIndent) ==
    IF r.continue THEN r.c ELSE KeyValueStage(r.c, getKeyValuePair(line), lineIndent)

\* The body of the loop for a line that is neither empty nor a comment.
ProcessLine(c, line, lineIndent) ==
    AfterKeyValue(
        AfterMultiline(
            AfterObject(
                AfterComplex(AfterList(c, line, lineIndent), line, lineIndent),
                line, lineIndent),
            line),
        line, lineIndent)

\* The body of the loop reaches its step "Check for new key/value pair":
\* no mode has consumed the line.
ReachesKeyValue(c, line, lineIndent) ==
    ~AfterMultiline(
        AfterObject(
            AfterComplex(AfterList(c, line, lineIndent), line, lineIndent),
            line, lineIndent),
        line).continue

\* One iteration of while (line !== null) in parse.
ScanLine(c) ==
    IF isEmptyOrComment(LineAt(c, c.lineIndex)) THEN Advance(c)
    ELSE ProcessLine(c, LineAt(c, c.lineIndex), getLineIndent(LineAt(c, c.lineIndex)))

\* The iteration that scans the line of c takes the branch "Multiline
\* value starts on next line" of the key/value step.
OpensMultiline(c) ==
    /\ ~isEmptyOrComment(LineAt(c, c.lineIndex))
    /\ ReachesKeyValue(c, LineAt(c, c.lineIndex), getLineIndent(LineAt(c, c.lineIndex)))
    /\ getKeyValuePair(LineAt(c, c.lineIndex)).ok
    /\ ScanLine(c).inMultiline

\* The final processing of in-progress structures, after the loop.
FinalMultiline(c) ==
    IF c.inMultiline /\ Truthy(c.currentKey)
    THEN [c EXCEPT !.result = ObjSet(@, c.currentKey, Str(c.multilineValue)),
                   !.literalBlock = FALSE]
    ELSE c

FinalComplexList(c) ==
    IF c.inComplexList /\ Truthy(c.currentKey)
    THEN LET list == IF c.currentComplexItem.t = "null"
                     THEN c.currentList
                     ELSE Append(c.currentList, c.currentComplexItem)
         IN [c EXCEPT !.currentList = list,
                      !.result = ObjSet(@, c.currentKey, Arr(list)),
                      !.inComplexList = FALSE,
                      !.currentComplexItem = NullV]
    ELSE c

FinalList(c) ==
    IF c.inList /\ Truthy(c.currentKey)
    THEN [c EXCEPT !.result = ObjSet(@, c.currentKey, Arr(c.currentList))]
    ELSE c

FinalObject(c) ==
    IF c.inObject /\ Truthy(c.currentKey)
    THEN [c EXCEPT !.result = ObjSet(@, c.currentKey, Obj(c.currentObject))]
    ELSE c

FinalProcessing(c) == FinalObject(FinalList(FinalComplexList(FinalMultiline(c))))

\* parse as a function: the loop run to its end, then the final processing.
RECURSIVE RunScan(_)
RunScan(c) == IF HasLine(c) /\ ~c.threw THEN RunScan(ScanLine(c)) ELSE c

parse(yamlString) ==
    IF yamlString = "" THEN <<>>
    ELSE FinalProcessing(RunScan(ParseContext(yamlString))).result

(***************************************************************************)
(* YAMLParser.stringify                                                    *)
(***************************************************************************)

\* Array(indent + 1).join(" ")
RECURSIVE Spaces(_)
Spaces(n) == IF n <= 0 THEN "" ELSE " " \o Spaces(n - 1)

\* array.join(separator): a null element is joined as the empty string.
RECURSIVE Join(_, _)
Join(items, separator) ==
    IF Len(items) = 0 THEN ""
    ELSE IF Len(items) = 1 THEN (IF Head(items).t = "null" THEN "" ELSE Head(items).s)
    ELSE (IF Head(items).t = "null" THEN "" ELSE Head(items).s)
             \o separator \o Join(Tail(items), separator)

\* typeof value === "object" && value !== null
IsObjectLike(value) == value.t \in {"object", "array"}

\* The own properties for (var prop in item) enumerates: the pairs of an
\* object, the indices of an array.
Properties(value) ==
    IF value.t = "array"
    THEN [i \in 1..Len(value.items) |-> [k |-> DigitChar(i - 1), v |-> value.items[i]]]
    ELSE value.pairs

\* The lines of a multi-line string, each behind the prefix, each ended by \n.
RECURSIVE BlockLines(_, _)
BlockLines(lines, prefix) ==
    IF Len(lines) = 0 THEN ""
    ELSE prefix \o Head(lines) \o "\n" \o BlockLines(Tail(lines), prefix)

DropLast(str) == Slice(str, 1, Len(str) - 1)

RECURSIVE stringifyValue(_, _)
RECURSIVE StringifyItems(_, _, _)
RECURSIVE StringifyProperties(_, _, _)

\* The loop over a block array in stringifyValue.
StringifyItems(items, indentStr, indent) ==
    IF Len(items) = 0 THEN ""
    ELSE indentStr \o "- " \o stringifyValue(Head(items), indent + 2) \o "\n"
             \o StringifyItems(Tail(items), indentStr, indent)

\* The loop over the properties of an object: prefix, key, value on a line.
StringifyProperties(pairs, prefix, indent) ==
    IF Len(pairs) = 0 THEN ""
    ELSE prefix \o Head(pairs).k \o ": " \o stringifyValue(Head(pairs).v, indent) \o "\n"
             \o StringifyProperties(Tail(pairs), prefix, indent)

stringifyValue(value, indent) ==
    LET indentStr == Spaces(indent) IN
    IF value.t = "null" THEN "null"
    ELSE IF value.t \in {"boolean", "number"} THEN value.s
    ELSE IF value.t = "array"
    THEN IF Len(value.items) = 0 THEN "[]"
         ELSE IF /\ Len(value.items) <= 3
                 /\ \A i \in 1..Len(value.items) :
                       /\ value.items[i].t \notin {"object", "array", "null"}
                       /\ Len(value.items[i].s) < 15
         THEN "[" \o Join(value.items, ", ") \o "]"
         ELSE DropLast("\n" \o StringifyItems(value.items, indentStr, indent))
    ELSE IF value.t = "string"
    THEN IF HasChar(value.s, {"\n"})
         THEN DropLast("|\n" \o BlockLines(SplitLines(value.s), indentStr))
         ELSE IF needsQuotes(value.s) THEN "\"" \o escapeString(value.s) \o "\""
         ELSE value.s
    ELSE DropLast("\n" \o StringifyProperties(value.pairs, indentStr, indent + 2))

\* The loop over a block array in stringify.
RECURSIVE StringifyListItems(_)
StringifyListItems(items) ==
    IF Len(items) = 0 THEN ""
    ELSE LET item == Head(items) IN
         (IF item.t = "string" /\ HasChar(item.s, {"\n"})
          THEN "  - |\n" \o BlockLines(SplitLines(item.s), "    ")
          ELSE IF IsObjectLike(item)
          THEN "  -\n" \o StringifyProperties(Properties(item), "    ", 4)
          ELSE "  - " \o stringifyValue(item, 4) \o "\n")
             \o StringifyListItems(Tail(items))

\* The text stringify appends for one key of obj.
StringifyEntry(key, value) ==
    IF value.t = "null" THEN key \o ": null\n"
    ELSE IF value.t \in {"boolean", "number"} THEN key \o ": " \o value.s \o "\n"
    ELSE IF value.t = "array"
    THEN IF Len(value.items) = 0 THEN key \o ": []\n"
         ELSE IF /\ Len(value.items) <= 5
                 /\ \A i \in 1..Len(value.items) :
                       /\ value.items[i].t = "string"
                       /\ Len(value.items[i].s) < 20
                       /\ ~HasChar(value.items[i].s, {","})
         THEN key \o ": [" \o Join(value.items, ", ") \o "]\n"
         ELSE key \o ":\n" \o StringifyListItems(value.items)
    ELSE IF value.t = "string"
    THEN IF HasChar(value.s, {"\n"})
         THEN key \o ": |\n" \o BlockLines(SplitLines(value.s), "  ")
         ELSE IF value.s = "" THEN key \o ":\n"
         ELSE IF needsQuotes(value.s)
         THEN key \o ": \"" \o escapeString(value.s) \o "\"\n"
         ELSE key \o ": " \o value.s \o "\n"
    ELSE key \o ":\n" \o StringifyProperties(value.pairs, "  ", 2)

RECURSIVE stringify(_)
stringify(obj) ==
    IF Len(obj) = 0 THEN ""
    ELSE StringifyEntry(Head(obj).k, Head(obj).v) \o stringify(Tail(obj))

(***************************************************************************)
(* PandocMapper.mapToBookCreator and the mapping of BookUtils.File.exportYAML *)
(***************************************************************************)

\* JavaScript's undefined as a value: an absent property.
UndefinedV == [t |-> "undefined", s |-> "", items |-> <<>>, pairs |-> <<>>]

\* if (value): the truthiness of a value.
TruthyV(value) ==
    CASE value.t = "string" -> value.s # ""
      [] value.t = "number" -> value.s # "0"
      [] value.t = "boolean" -> value.s = "true"
      [] value.t \in {"null", "undefined"} -> FALSE
      [] value.t \in {"array", "object"} -> TRUE

\* obj[key] of an object given by its pairs: undefined when absent.
Prop(pairs, key) == IF ObjHas(pairs, key) THEN ObjGet(pairs, key) ELSE UndefinedV

\* item.key of any value: only an object has the properties of interest.
PropOf(value, key) == IF value.t = "object" THEN Prop(value.pairs, key) ELSE UndefinedV

\* delete obj[key]
ObjDelete(pairs, key) == SelectSeq(pairs, LAMBDA p : p.k # key)

isArray(value) == value.t = "array"

\* The loop over pandocData.title: the main and subtitle entries.
RECURSIVE TitleLoop(_, _)
TitleLoop(items, result) ==
    IF Len(items) = 0 THEN result
    ELSE LET titleItem == Head(items) IN
         TitleLoop(Tail(items),
             IF ~IsObjectLike(titleItem) THEN result
             ELSE IF PropOf(titleItem, "type") = Str("main")
                        /\ TruthyV(PropOf(titleItem, "text"))
             THEN ObjSet(result, "title", PropOf(titleItem, "text"))
             ELSE IF PropOf(titleItem, "type") = Str("subtitle")
                        /\ TruthyV(PropOf(titleItem, "text"))
             THEN ObjSet(result, "subtitle", PropOf(titleItem, "text"))
             ELSE result)

\* The loop over pandocData.creator: the entries with role author.
RECURSIVE CreatorLoop(_, _)
CreatorLoop(items, result) ==
    IF Len(items) = 0 THEN result
    ELSE LET creatorItem == Head(items) IN
         CreatorLoop(Tail(items),
             IF /\ IsObjectLike(creatorItem)
                /\ PropOf(creatorItem, "role") = Str("author")
                /\ TruthyV(PropOf(creatorItem, "text"))
             THEN ObjSet(result, "author", PropOf(creatorItem, "text"))
             ELSE result)

\* The loop over pandocData.identifier: the first entry with scheme ISBN.
RECURSIVE IdentifierLoop(_, _)
IdentifierLoop(items, result) ==
    IF Len(items) = 0 THEN result
    ELSE LET identifierItem == Head(items) IN
         IdentifierLoop(Tail(items),
             IF /\ IsObjectLike(identifierItem)
                /\ PropOf(identifierItem, "scheme") = Str("ISBN")
                /\ TruthyV(PropOf(identifierItem, "text"))
                /\ ~TruthyV(Prop(result, "isbnEbook"))
             THEN ObjSet(result, "isbnEbook", PropOf(identifierItem, "text"))
             ELSE result)

\* if (pandocData[from]) result[to] = pandocData[from];
CopyField(data, from, result, to) ==
    IF TruthyV(Prop(data, from)) THEN ObjSet(result, to, Prop(data, from)) ELSE result

\* The direct field mappings that follow the date, in the order of the code.
DirectFields == <<
    <<"translator-display", "translation">>, <<"critical-display", "critical">>,
    <<"cover-note", "coverCredit">>, <<"editions", "editions">>,
    <<"funding", "funding">>, <<"rights", "rights">>, <<"price", "price">>,
    <<"publisher", "publisher">>, <<"lang", "language">>,
    <<"original-title", "originalTitle">> >>

RECURSIVE CopyFields(_, _, _)
CopyFields(data, fields, result) ==
    IF Len(fields) = 0 THEN result
    ELSE CopyFields(data, Tail(fields),
                    CopyField(data, Head(fields)[1], result, Head(fields)[2]))

\* if (pandocData.title) { ... }
MapTitle(title) ==
    IF ~TruthyV(title) THEN <<>>
    ELSE IF isArray(title) THEN TitleLoop(title.items, <<>>)
    ELSE <<[k |-> "title", v |-> title]>>

\* if (pandocData.creator) { ... }
MapCreator(creator, result) ==
    IF ~TruthyV(creator) THEN result
    ELSE IF isArray(creator) THEN CreatorLoop(creator.items, result)
    ELSE ObjSet(result, "author", creator)

\* if (pandocData.identifier && isArray(pandocData.identifier)) { ... }
MapIdentifier(identifier, result) ==
    IF TruthyV(identifier) /\ isArray(identifier)
    THEN IdentifierLoop(identifier.items, result)
    ELSE result

\* printDate from published-print, else from date.
MapDate(data, result) ==
    IF TruthyV(Prop(data, "published-print"))
    THEN ObjSet(result, "printDate", Prop(data, "published-print"))
    ELSE CopyField(data, "date", result, "printDate")

\* if (!result[field] && pandocData[field]) result[field] = pandocData[field];
MapIfUnset(data, field, result) ==
    IF ~TruthyV(Prop(result, field)) /\ TruthyV(Prop(data, field))
    THEN ObjSet(result, field, Prop(data, field))
    ELSE result

mapToBookCreator(data) ==
    MapIfUnset(data, "author",
      MapIfUnset(data, "subtitle",
        CopyFields(data, DirectFields,
          MapDate(data,
            CopyField(data, "isbn-ebook",
              CopyField(data, "isbn-print",
                MapIdentifier(Prop(data, "identifier"),
                  MapCreator(Prop(data, "creator"),
                    MapTitle(Prop(data, "title")))),
                "isbnPrint"),
              "isbnEbook")))))

\* fieldMappings of exportYAML, in its order: BookCreator field, Pandoc field.
fieldMappings == <<
    <<"title", "title">>, <<"subtitle", "subtitle">>, <<"author", "author">>,
    <<"printDate", "published-print">>, <<"language", "lang">>,
    <<"rights", "rights">>, <<"isbnPrint", "isbn-print">>,
    <<"isbnEbook", "isbn-ebook">>, <<"translator-display", "translation">>,
    <<"critical-display", "critical">>, <<"originalTitle", "originalTitle">>,
    <<"cover-note", "coverCredit">>, <<"editions", "editions">>,
    <<"funding", "funding">>, <<"price", "price">> >>

\* fieldMappings.hasOwnProperty(field)
IsMappedField(field) == \E i \in 1..Len(fieldMappings) : fieldMappings[i][1] = field

\* for (var field in bookInfo) if (!fieldMappings.hasOwnProperty(field) && ...)
RECURSIVE CopyUnmapped(_, _)
CopyUnmapped(info, result) ==
    IF Len(info) = 0 THEN result
    ELSE CopyUnmapped(Tail(info),
             IF ~IsMappedField(Head(info).k) /\ TruthyV(Head(info).v)
             THEN ObjSet(result, Head(info).k, Head(info).v)
             ELSE result)

\* The title block of exportYAML: the array is built, then deleted with the
\* simple fields.
ExportTitle(info, data) ==
    IF TruthyV(Prop(info, "title")) \/ TruthyV(Prop(info, "subtitle"))
    THEN LET main == IF TruthyV(Prop(info, "title"))
                     THEN <<Obj(<<[k |-> "type", v |-> Str("main")],
                                  [k |-> "text", v |-> Prop(info, "title")]>>)>>
                     ELSE <<>>
             sub  == IF TruthyV(Prop(info, "subtitle"))
                     THEN <<Obj(<<[k |-> "type", v |-> Str("subtitle")],
                                  [k |-> "text", v |-> Prop(info, "subtitle")]>>)>>
                     ELSE <<>>
             withTitle == ObjSet(data, "title", Arr(main \o sub))
         IN ObjDelete(ObjDelete(withTitle, "title"), "subtitle")
    ELSE data

\* The creator block of exportYAML.
ExportCreator(info, data) ==
    IF TruthyV(Prop(info, "author"))
    THEN ObjDelete(ObjSet(data, "creator",
                          Arr(<<Obj(<<[k |-> "role", v |-> Str("author")],
                                      [k |-> "text", v |-> Prop(info, "author")]>>)>>)),
                   "author")
    ELSE data

\* The identifier block of exportYAML, and delete yamlData["isbn-ebook"].
ExportIdentifier(info, data) ==
    ObjDelete(IF TruthyV(Prop(info, "isbnEbook"))
              THEN ObjSet(data, "identifier",
                          Arr(<<Obj(<<[k |-> "scheme", v |-> Str("ISBN")],
                                      [k |-> "text", v |-> Prop(info, "isbnEbook")]>>)>>))
              ELSE data,
              "isbn-ebook")

\* The object exportYAML builds and hands to stringify.
exportYAML(info) ==
    LET simple == CopyFields(info, fieldMappings, <<>>) IN
    CopyUnmapped(info,
        ExportIdentifier(info, ExportCreator(info, ExportTitle(info, simple))))

(***************************************************************************)
(* Book: the order of the Markdown files, the keywords of a file name, the  *)
(* score of a template and the selection of the template of a file.        *)
(* A File is modelled by its name.                                         *)
(***************************************************************************)

\* The characters of the modelled file names, in the order of their code
\* units, which is the order the operator < of JavaScript compares by.
CodeOrder == " -.0123456789ABCDEFGHIJKLMNOPQRSTUVWXYZ_abcdefghijklmnopqrstuvwxyz"

CodeUnit(c) == IndexOfChar(CodeOrder, c)

\* a < b for two strings that are equal before position i.
RECURSIVE StringLessFrom(_, _, _)
StringLessFrom(a, b, i) ==
    IF i > Len(b) THEN FALSE
    ELSE IF i > Len(a) THEN TRUE
    ELSE IF Ch(a, i) = Ch(b, i) THEN StringLessFrom(a, b, i + 1)
    ELSE CodeUnit(Ch(a, i)) < CodeUnit(Ch(b, i))

\* The comparison of Array.prototype.sort without a comparator.
StringLess(a, b) == StringLessFrom(a, b, 1)

\* array.sort() of an array of distinct names, given as the set of its
\* elements: the order the folder lists them in does not reach the result.
RECURSIVE sort(_)
sort(names) ==
    IF names = {} THEN <<>>
    ELSE LET first == CHOOSE a \in names : \A b \in names \ {a} : StringLess(a, b)
         IN <<first>> \o sort(names \ {first})

Elements(seq) == {seq[i] : i \in DOMAIN seq}

\* JavaScript's null, where a File is absent.
NoFile == "<null>"

\* _getAllMarkdownFilesFromFolder: the names of the folder's .md files, sorted.
getAllMarkdownFilesFromFolder(folder) == sort(folder)

\* _findMatchingMarkdownFile(chapterIndex, mdFiles): the empty names are
\* filtered out, the rest sorted and indexed from 0.
findMatchingMarkdownFile(chapterIndex, mdFiles) ==
    LET validFiles == sort({f \in Elements(mdFiles) : f # ""}) IN
    IF Len(mdFiles) = 0 THEN NoFile
    ELSE IF chapterIndex >= 0 /\ chapterIndex < Len(validFiles)
         THEN validFiles[chapterIndex + 1]
         ELSE NoFile

\* str.replace(/<suffix>$/, '') for a literal suffix.
DropSuffix(s, suffix) ==
    IF Len(s) >= Len(suffix) /\ Slice(s, Len(s) - Len(suffix) + 1, Len(s)) = suffix
    THEN Slice(s, 1, Len(s) - Len(suffix))
    ELSE s

\* The length of the longest run of characters of S in s that starts at i.
RECURSIVE RunFrom(_, _, _)
RunFrom(s, S, i) ==
    IF i <= Len(s) /\ Ch(s, i) \in S THEN 1 + RunFrom(s, S, i + 1) ELSE 0

LowerLetters == {Ch(LowerCase, i) : i \in 1..Len(LowerCase)}

\* The optional '-' that ends /^[a-z]+-\d+-\d*-?/, after n matched characters.
OptionalDash(s, n) == IF Ch(s, n + 1) = "-" THEN n + 1 ELSE n

\* The length of the match of /^[a-z]+-\d+-/ continued by \d*-?, given the
\* lengths l and d of the run of letters and of the first run of digits.
SeriesMatch(s, l, d) ==
    IF l = 0 \/ Ch(s, l + 1) # "-" \/ d = 0 \/ Ch(s, l + d + 2) # "-"
    THEN 0
    ELSE OptionalDash(s, l + d + 2 + RunFrom(s, DigitChars, l + d + 3))

\* The length of the match of /^[a-z]+-\d+-\d*-?/ in s, 0 without a match.
SeriesPrefixLen(s) ==
    SeriesMatch(s, RunFrom(s, LowerLetters, 1),
                RunFrom(s, DigitChars, RunFrom(s, LowerLetters, 1) + 2))

\* The length of the match of /^\d+-/ in s, given the length d of the run
\* of digits s starts with.
NumberMatch(s, d) == IF d > 0 /\ Ch(s, d + 1) = "-" THEN d + 1 ELSE 0

Drop(s, n) == Slice(s, n + 1, Len(s))

\* .replace(/^[a-z]+-\d+-\d*-?/, '')
StripSeries(s) == Drop(s, SeriesPrefixLen(s))

\* .replace(/^\d+-/, '')
StripNumber(s) == Drop(s, NumberMatch(s, RunFrom(s, DigitChars, 1)))

\* The characters of /[-_\s]/ that a modelled file name can hold.
Separators == {"-", "_", " "}

\* clean.split(/[-_\s]+/) from position i on, word being the characters
\* read since the last separator: a leading or trailing run of separators
\* leaves an empty string.
RECURSIVE SplitWords(_, _, _)
SplitWords(s, i, word) ==
    IF i > Len(s) THEN <<word>>
    ELSE IF Ch(s, i) \in Separators
         THEN <<word>> \o SplitWords(s, i + RunFrom(s, Separators, i), "")
         ELSE SplitWords(s, i + 1, word \o Ch(s, i))

\* The loop without its test of the length, which keeps every word.
LongWords_KeepShort(allWords) == SelectSeq(allWords, LAMBDA w : Len(w) > 0)

\* The loop that keeps the words of more than two characters.
LongWords(allWords) == SelectSeq(allWords, LAMBDA w : Len(w) > 2)

\* _extractKeywords(filename)
extractKeywords(filename) ==
    IF filename = "" \/ filename = NoFile THEN <<>>
    ELSE LongWords(SplitWords(
             StripNumber(StripSeries(
                 DropSuffix(DropSuffix(toLowerCase(filename), ".indd"), ".md"))),
             1, ""))

\* s.indexOf(sub) !== -1, looking from position i on.
RECURSIVE ContainsFrom(_, _, _)
ContainsFrom(s, sub, i) ==
    IF i + Len(sub) - 1 > Len(s) THEN FALSE
    ELSE IF Slice(s, i, i + Len(sub) - 1) = sub THEN TRUE
    ELSE ContainsFrom(s, sub, i + 1)

Contains(s, sub) == ContainsFrom(s, sub, 1)

\* The table of _areSimilarTerms: synonyms[term] || [].
synonyms(term) ==
    CASE term = "bibliographie" -> {"bibliography", "biblio", "references"}
      [] term = "bibliography"  -> {"bibliographie", "biblio", "references"}
      [] term = "index"         -> {"indexes", "indices"}
      [] term = "annexe"        -> {"appendix", "appendices"}
      [] term = "appendix"      -> {"annexe", "appendices"}
      [] term = "glossaire"     -> {"glossary"}
      [] term = "glossary"      -> {"glossaire"}
      [] term = "preface"       -> {"préface", "avant-propos"}
      [] term = "préface"       -> {"preface", "avant-propos"}
      [] term = "conclusion"    -> {"epilogue", "épilogue"}
      [] term = "epilogue"      -> {"conclusion", "épilogue"}
      [] term = "épilogue"      -> {"conclusion", "epilogue"}
      [] OTHER                  -> {}

\* _areSimilarTerms(term1, term2)
areSimilarTerms(term1, term2) ==
    term2 \in synonyms(term1) \/ term1 \in synonyms(term2)

\* What one pair of keywords adds to keywordScore.
PairScore(mdKeyword, templateKeyword) ==
    IF mdKeyword = templateKeyword THEN 60
    ELSE IF Contains(mdKeyword, templateKeyword) \/ Contains(templateKeyword, mdKeyword)
         THEN 30
    ELSE IF areSimilarTerms(mdKeyword, templateKeyword) THEN 15
    ELSE 0

\* keywordScore after the first n pairs (i, j) of the two nested loops.
RECURSIVE KeywordSum(_, _, _)
KeywordSum(mdKw, templateKw, n) ==
    IF n = 0 THEN 0
    ELSE KeywordSum(mdKw, templateKw, n - 1)
         + PairScore(mdKw[((n - 1) \div Len(templateKw)) + 1],
                     templateKw[((n - 1) % Len(templateKw)) + 1])

Min(a, b) == IF a < b THEN a ELSE b

\* The base score for type matching.
TypeScore(type, expectedType) ==
    IF type = expectedType THEN 30
    ELSE IF type = "specialized" THEN 20
    ELSE 0

\* The keyword score without Math.min(70, keywordScore).
KeywordScore_Uncapped(mdKw, templateKw) ==
    KeywordSum(mdKw, templateKw, Len(mdKw) * Len(templateKw))

\* The normalized keyword score.
KeywordScore(mdKw, templateKw) ==
    Min(70, KeywordSum(mdKw, templateKw, Len(mdKw) * Len(templateKw)))

\* _calculateMatchScore(mdKeywords, templateKeywords, templateType, expectedType)
calculateMatchScore(mdKw, templateKw, type, expectedType) ==
    TypeScore(type, expectedType) + KeywordScore(mdKw, templateKw)

frontmatterKeywords ==
    {"prologue", "abstract", "acknowledgments", "copyright", "dedication",
     "credits", "imprint", "foreword", "preface", "introduction",
     "avant-propos", "préface", "dédicace", "remerciements", "crédits"}

backmatterKeywords ==
    {"appendix", "colophon", "bibliography", "index", "conclusion",
     "annexe", "bibliographie", "glossaire", "épilogue", "postface"}

bodymatterKeywords == {"chapter", "chapitre", "part", "partie"}

\* One of the loops of _determineTemplateType: some keyword is in filename.
HasKeyword(filename, keywords) == \E k \in keywords : Contains(filename, k)

\* The three loops of _determineTemplateType over the lowercased name.
TypeOfLowered(filename) ==
    IF HasKeyword(filename, frontmatterKeywords) THEN "frontmatter"
    ELSE IF HasKeyword(filename, backmatterKeywords) THEN "backmatter"
    ELSE IF HasKeyword(filename, bodymatterKeywords) THEN "bodymatter"
    ELSE "bodymatter"

\* The loops with the back matter tested before the front matter.
determineTemplateType_BackFirst(name) ==
    IF HasKeyword(toLowerCase(name), backmatterKeywords) THEN "backmatter"
    ELSE IF HasKeyword(toLowerCase(name), frontmatterKeywords) THEN "frontmatter"
    ELSE "bodymatter"

\* _determineTemplateType(mdFileName)
determineTemplateType(name) == TypeOfLowered(toLowerCase(name))

(***************************************************************************)
(* Book: the classification of the template folder, the selection of the   *)
(* best template, and the documents of generate.                           *)
(***************************************************************************)

\* The comparator of _classifyTemplatesByOrder, which returns -1 where the
\* lowercased name of a is less than that of b.
TemplateLess(a, b) == StringLessFrom(toLowerCase(a), toLowerCase(b), 1)

\* sortedFiles.sort(comparator) of files whose lowercased names differ.
RECURSIVE sortTemplates(_)
sortTemplates(files) ==
    IF files = {} THEN <<>>
    ELSE LET first == CHOOSE a \in files : \A b \in files \ {a} : TemplateLess(a, b)
         IN <<first>> \o sortTemplates(files \ {first})

\* The templates object before the loop of _classifyTemplatesByOrder.
NoTemplates ==
    [before |-> <<>>, frontmatter |-> NoFile, bodymatter |-> NoFile,
     backmatter |-> NoFile, after |-> <<>>, cover |-> NoFile,
     specialized |-> <<>>]

specializedKeywords ==
    {"bibliographie", "bibliography", "biblio", "index", "indexes", "indices",
     "annexe", "appendix", "appendices", "glossaire", "glossary",
     "preface", "préface", "conclusion", "epilogue", "épilogue",
     "remerciements", "acknowledgments", "dedication", "dédicace",
     "colophon", "notes"}

\* _isSpecializedTemplate(filename)
isSpecializedTemplate(filename) == HasKeyword(filename, specializedKeywords)

\* The last branch of the loop body: before or after, by what was found.
\* frontmatterFound, bodymatterFound and backmatterFound are set with the
\* slots, so each is read as its slot being filled.
ClassifyByPosition(t, file) ==
    IF t.frontmatter = NoFile THEN [t EXCEPT !.before = Append(@, file)]
    ELSE IF t.bodymatter # NoFile \/ t.backmatter # NoFile
         THEN [t EXCEPT !.after = Append(@, file)]
    ELSE [t EXCEPT !.before = Append(@, file)]

\* The body of the loop of _classifyTemplatesByOrder for one file.
ClassifyFile(t, file, filename) ==
    IF Contains(filename, "cover") THEN [t EXCEPT !.cover = file]
    ELSE IF Contains(filename, "frontmatter") THEN [t EXCEPT !.frontmatter = file]
    ELSE IF Contains(filename, "bodymatter") THEN [t EXCEPT !.bodymatter = file]
    ELSE IF Contains(filename, "backmatter") THEN [t EXCEPT !.backmatter = file]
    ELSE IF isSpecializedTemplate(filename)
         THEN [t EXCEPT !.specialized = Append(@, file)]
    ELSE ClassifyByPosition(t, file)

RECURSIVE ClassifyLoop(_, _, _)
ClassifyLoop(t, sortedFiles, j) ==
    IF j > Len(sortedFiles) THEN t
    ELSE ClassifyLoop(ClassifyFile(t, sortedFiles[j], toLowerCase(sortedFiles[j])),
                      sortedFiles, j + 1)

\* _classifyTemplatesByOrder(templateFolder), the folder given as the set
\* of the names of its .indd files (empty where the folder is missing).
classifyTemplatesByOrder(files) == ClassifyLoop(NoTemplates, sortTemplates(files), 1)

\* One element of allTemplates.
Candidate(file, type) ==
    [file |-> file, type |-> type, keywords |-> extractKeywords(file)]

SlotCandidate(file, type) ==
    IF file # NoFile THEN <<Candidate(file, type)>> ELSE <<>>

ListCandidates(files, type) == [i \in 1..Len(files) |-> Candidate(files[i], type)]

\* The list allTemplates that _selectBestTemplate builds.
AllTemplates(t) ==
    SlotCandidate(t.frontmatter, "frontmatter")
    \o SlotCandidate(t.bodymatter, "bodymatter")
    \o SlotCandidate(t.backmatter, "backmatter")
    \o ListCandidates(t.before, "before")
    \o ListCandidates(t.specialized, "specialized")

NoBest == [bestMatch |-> NoFile, bestScore |-> 0]

ScoreOf(mdKw, template, expectedType) ==
    calculateMatchScore(mdKw, template.keywords, template.type, expectedType)

\* The update of the scoring loop made on an equal score too.
Better_OrEqual(best, template, score) ==
    IF score >= best.bestScore
    THEN [bestMatch |-> template.file, bestScore |-> score]
    ELSE best

\* if (score > bestScore) { bestScore = score; bestMatch = template.file; }
Better(best, template, score) ==
    IF score > best.bestScore
    THEN [bestMatch |-> template.file, bestScore |-> score]
    ELSE best

RECURSIVE BestLoop(_, _, _, _, _)
BestLoop(best, all, t, mdKw, expectedType) ==
    IF t > Len(all) THEN best
    ELSE BestLoop(Better(best, all[t], ScoreOf(mdKw, all[t], expectedType)),
                  all, t + 1, mdKw, expectedType)

\* The fallback by type that ends _selectBestTemplate.
Fallback(t, type) ==
    IF type = "frontmatter" /\ t.frontmatter # NoFile THEN t.frontmatter
    ELSE IF type = "backmatter" /\ t.backmatter # NoFile THEN t.backmatter
    ELSE t.bodymatter

\* What _selectBestTemplate returns once the loop has run.
ChooseTemplate(best, t, type) ==
    IF best.bestMatch # NoFile /\ best.bestScore >= 60 THEN best.bestMatch
    ELSE Fallback(t, type)

\* _selectBestTemplate(mdFileName, templateType) with this.templates = t.
selectBestTemplate(name, type, t) ==
    IF name = "" THEN t.bodymatter
    ELSE ChooseTemplate(BestLoop(NoBest, AllTemplates(t), 1,
                                 extractKeywords(name), type),
                        t, type)

\* this.name.toUpperCase() + '-'
Prefix == "BOOK-"

\* name.replace(/^.*?-/, prefix), given the position p of the first '-'.
ReplaceUpTo(name, p) == IF p = 0 THEN name ELSE Prefix \o Drop(name, p)

ReplaceLead(name) == ReplaceUpTo(name, IndexOfChar(name, "-"))

\* currentMdFile.replace(/^\d+-/, "").replace(/\.md$/, "")
descriptiveName(md) == DropSuffix(StripNumber(md), ".md")

\* The position of the first occurrence of sub in s from i on, 0 if none.
RECURSIVE FirstIndexOf(_, _, _)
FirstIndexOf(s, sub, i) ==
    IF i + Len(sub) - 1 > Len(s) THEN 0
    ELSE IF Slice(s, i, i + Len(sub) - 1) = sub THEN i
    ELSE FirstIndexOf(s, sub, i + 1)

\* s.replace('.indd', by), given the position p of the first '.indd'.
ReplaceAt(s, p, by) ==
    IF p = 0 THEN s ELSE Slice(s, 1, p - 1) \o by \o Drop(s, p + 4)

\* The newName of the document of a Markdown file.
ChapterName(template, md) ==
    ReplaceAt(ReplaceLead(template), FirstIndexOf(ReplaceLead(template), ".indd", 1),
              "-" \o descriptiveName(md) \o ".indd")

\* The length of the run of characters of S that ends s at position i.
RECURSIVE RunBefore(_, _, _)
RunBefore(s, S, i) ==
    IF i >= 1 /\ Ch(s, i) \in S THEN 1 + RunBefore(s, S, i - 1) ELSE 0

\* parseInt(digits, 10) of a run of digits.
RECURSIVE ParseDigits(_)
ParseDigits(digits) ==
    IF digits = "" THEN 0
    ELSE 10 * ParseDigits(Slice(digits, 1, Len(digits) - 1))
         + DigitVal(Ch(digits, Len(digits)))

\* chapterIndex where generate passes none.
NoIndex == -1

\* parseInt(chapterMatch[1], 10) - 1 for the match of /_(\d+)\.indd$/ in
\* a name whose base (the name less '.indd') ends with d digits; NoIndex
\* where the name does not match.
DeduceFrom(base, name, d) ==
    IF base = name \/ d = 0 \/ Ch(base, Len(base) - d) # "_" THEN NoIndex
    ELSE ParseDigits(Slice(base, Len(base) - d + 1, Len(base))) - 1

DeducedOf(base, name) == DeduceFrom(base, name, RunBefore(base, DigitChars, Len(base)))

DeducedIndex(name) == DeducedOf(DropSuffix(name, ".indd"), name)

\* The Markdown file _injectMarkdownContent(doc, chapterIndex) injects into
\* the document named name, NoFile where it returns false first.  Every
\* listed file can be read and every template has a target text frame.
InjectedFile(name, chapterIndex, inputFiles) ==
    IF Len(inputFiles) = 0 THEN NoFile
    ELSE IF chapterIndex # NoIndex
         THEN findMatchingMarkdownFile(chapterIndex, inputFiles)
    ELSE IF DeducedIndex(name) # NoIndex
         THEN findMatchingMarkdownFile(DeducedIndex(name), inputFiles)
    ELSE NoFile

\* The record of one call of _generateDocument: the template copied, the
\* name of the document, whether it joins the book, the chapterIndex
\* passed, and the Markdown file injected (NoFile for none).
Document(template, name, includeInBook, chapterIndex, inject, inputFiles) ==
    [template |-> template, name |-> name, includeInBook |-> includeInBook,
     chapterIndex |-> chapterIndex,
     content |-> IF inject THEN InjectedFile(name, chapterIndex, inputFiles)
                 ELSE NoFile]

\* Book.generate and the selection of a template at rest.
IdleGenerate ==
    /\ genPc = "idle"
    /\ mdFolder = {}
    /\ injecting = FALSE
    /\ allMdFiles = <<>>
    /\ loopIndex = 0
    /\ documents = <<>>

IdleSelect ==
    /\ selPc = "idle"
    /\ mdFileName = ""
    /\ templateType = ""
    /\ mdKeywords = <<>>
    /\ allTemplates = <<>>
    /\ tIndex = 0
    /\ scores = <<>>
    /\ bestMatch = NoFile
    /\ bestScore = 0
    /\ selectedTemplate = NoFile

IdleBook ==
    /\ IdleGenerate
    /\ IdleSelect
    /\ templateFolder = {}
    /\ templates = NoTemplates

(***************************************************************************)
(* BookUtils.Document.replaceTextPlaceholders                              *)
(***************************************************************************)

\* The keys of values, in the order the code inserts them, which is the
\* order for (placeholder in values) walks.
PlaceholderKeys ==
    <<"<<Book_Author>>", "<<Book_Title>>", "<<Subtitle>>", "<<ISBN_Print>>",
      "<<ISBN_Ebook>>", "<<Translation>>", "<<Critical_Apparatus>>",
      "<<Print_Date>>", "<<Editions>>", "<<Funding>>", "<<Rights>>",
      "<<Price>>", "<<Original_Title>>", "<<Cover_Credit>>">>

\* values[placeholder] as replaceTextPlaceholders prepares it.
PlaceholderValue(placeholder, bookInfo_, options) ==
    CASE placeholder = "<<Book_Author>>" -> bookInfo_.author
      [] placeholder = "<<Book_Title>>" -> bookInfo_.title
      [] placeholder = "<<Subtitle>>" -> bookInfo_.subtitle
      [] placeholder = "<<ISBN_Print>>" -> bookInfo_.isbnPrint
      [] placeholder = "<<ISBN_Ebook>>" -> bookInfo_.isbnEbook
      [] placeholder = "<<Translation>>" -> bookInfo_.translation
      [] placeholder = "<<Critical_Apparatus>>" -> bookInfo_.critical
      [] placeholder = "<<Print_Date>>" -> bookInfo_.printDate
      [] placeholder = "<<Editions>>" -> bookInfo_.editions
      [] placeholder = "<<Funding>>" -> bookInfo_.funding
      [] placeholder = "<<Rights>>" -> bookInfo_.rights
      [] placeholder = "<<Price>>" -> bookInfo_.price
      [] placeholder = "<<Original_Title>>" ->
            IF options.showOriginalTitleLabel /\ bookInfo_.originalTitle # ""
            THEN options.originalTitleLabelText \o bookInfo_.originalTitle
            ELSE bookInfo_.originalTitle
      [] placeholder = "<<Cover_Credit>>" ->
            IF options.showCoverCreditLabel /\ bookInfo_.coverCredit # ""
            THEN options.coverCreditLabelText \o bookInfo_.coverCredit
            ELSE bookInfo_.coverCredit

\* Placeholders that should be completely removed if empty.
emptyFields ==
    {"<<Original_Title>>", "<<Translator_Display>>", "<<Critical_Display>>",
     "<<Cover_Credit>>", "<<Editions>>", "<<Funding>>"}

EmptyMarker == "###EMPTY_PLACEHOLDER###"

\* s.replace(pattern, by) with a string pattern, given the position p of
\* the first occurrence of the pattern: only that occurrence is replaced.
ReplaceFirstAt(s, pattern, by, p) ==
    IF p = 0 THEN s
    ELSE Slice(s, 1, p - 1) \o by \o Slice(s, p + Len(pattern), Len(s))

replace(s, pattern, by) == ReplaceFirstAt(s, pattern, by, FirstIndexOf(s, pattern, 1))

\* What one placeholder is replaced by: the marker in case 1, the value
\* (which may be empty) in case 2.
Replacement(placeholder, value) ==
    IF value = "" /\ placeholder \in emptyFields THEN EmptyMarker ELSE value

\* The loop over the placeholders from the k-th on: the content and
\* hasPlaceholder it ends with.
RECURSIVE ReplaceLoop(_, _, _, _, _)
ReplaceLoop(newContent, hasPlaceholder, bookInfo_, options, k) ==
    IF k > Len(PlaceholderKeys)
    THEN [newContent |-> newContent, hasPlaceholder |-> hasPlaceholder]
    ELSE IF FirstIndexOf(newContent, PlaceholderKeys[k], 1) = 0
    THEN ReplaceLoop(newContent, hasPlaceholder, bookInfo_, options, k + 1)
    ELSE ReplaceLoop(replace(newContent, PlaceholderKeys[k],
                             Replacement(PlaceholderKeys[k],
                                         PlaceholderValue(PlaceholderKeys[k], bookInfo_, options))),
                     TRUE, bookInfo_, options, k + 1)

\* text.split(/\r|\n/): the lines from position i on, the line that is
\* being read starting at from.
RECURSIVE SplitBreaks(_, _, _)
SplitBreaks(text, from, i) ==
    IF i > Len(text) THEN <<Slice(text, from, Len(text))>>
    ELSE IF Ch(text, i) \in {"\r", "\n"}
    THEN <<Slice(text, from, i - 1)>> \o SplitBreaks(text, i + 1, i + 1)
    ELSE SplitBreaks(text, from, i + 1)

\* The lines of a text that do not hold the marker.
RECURSIVE filteredLines(_)
filteredLines(lines) ==
    IF lines = <<>> THEN <<>>
    ELSE IF FirstIndexOf(Head(lines), EmptyMarker, 1) = 0
    THEN <<Head(lines)>> \o filteredLines(Tail(lines))
    ELSE filteredLines(Tail(lines))

\* lines.join("\r")
RECURSIVE JoinLines(_)
JoinLines(lines) ==
    IF lines = <<>> THEN ""
    ELSE IF Len(lines) = 1 THEN Head(lines)
    ELSE Head(lines) \o "\r" \o JoinLines(Tail(lines))

\* Remove lines containing empty placeholders.
RemoveMarkedLines(replaced) ==
    IF replaced.hasPlaceholder /\ FirstIndexOf(replaced.newContent, EmptyMarker, 1) # 0
    THEN JoinLines(filteredLines(SplitBreaks(replaced.newContent, 1, 1)))
    ELSE replaced.newContent

\* TextUtils.applyFormattedText sets the contents of the frame to the text;
\* its two rewritings (a <br> tag and a run of blanks that ends a line
\* become a line feed) do not apply to the texts of this model, which hold
\* neither.
applyFormattedText(text) == text

\* The contents of one text frame after one iteration of the loop over the
\* frames: a frame without contents is skipped, and a frame is rewritten
\* only if a placeholder was found and the content changed.
ProcessFrame(contents, bookInfo_, options) ==
    IF contents = "" THEN contents
    ELSE IF ReplaceLoop(contents, FALSE, bookInfo_, options, 1).hasPlaceholder
    THEN applyFormattedText(RemoveMarkedLines(ReplaceLoop(contents, FALSE, bookInfo_, options, 1)))
    ELSE contents

\* replaceTextPlaceholders at rest.
IdleText ==
    /\ textPc = "idle"
    /\ docInfo = <<>>
    /\ displayOptions = <<>>
    /\ originalFrames = <<>>
    /\ textFrames = <<>>
    /\ frameIndex = 0


(***************************************************************************)
(* The ISBN scenario: an input is validated; its digits, completed to 13   *)
(* as replaceEAN13Placeholders completes them, are encoded when they are   *)
(* a valid EAN-13.                                                         *)
(***************************************************************************)

MaxTail == 2

IsbnHeads == {"", "12345678901", "123456789012", "9782940426",
              "978-2-940426-", "978-2-940426-XX", "978-2-9565793-4-",
              "978 2 940426 1"}

IsbnTailChars == DigitChars \cup {"-", "X"}

RECURSIVE StringsUpTo(_, _)
StringsUpTo(chars, n) ==
    IF n = 0 THEN {""}
    ELSE LET shorter == StringsUpTo(chars, n - 1) IN
         shorter \cup {s \o c : s \in shorter, c \in chars}

IsbnInputs == {h \o t : h \in IsbnHeads, t \in StringsUpTo(IsbnTailChars, MaxTail)}

\* The digits replaceEAN13Placeholders hands to isEAN13Valid and drawBarcode.
ean13Digits(isbnValue) ==
    LET isbnDigits == StripNonDigits(isbnValue) IN
    IF Len(isbnDigits) = 12
    THEN isbnDigits \o DigitChar(calculateCheckDigit(isbnDigits))
    ELSE isbnDigits

\* The YAML and mapper scenarios at rest.
\* convertValue at rest.
IdleConvert ==
    /\ convPc = "idle"
    /\ convInput = ""
    /\ convOutput = NullV

IdleYAML ==
    /\ yamlPc = "idle"
    /\ yamlFrom = "text"
    /\ yamlValue = <<>>
    /\ yamlText = ""
    /\ ctx = NoContext
    /\ yamlResult = <<>>
    /\ keyIndent = 0

IdleMapper ==
    /\ mapPc = "idle"
    /\ bookInfo = <<>>
    /\ yamlData = <<>>
    /\ pandocData = <<>>
    /\ mapped = <<>>

InitISBN ==
    /\ isbnPc = "input"
    /\ isbnInput \in IsbnInputs
    /\ isbnResult = [valid |-> FALSE, result |-> Undefined, message |-> Undefined]
    /\ barcode = ""
    /\ IdleYAML
    /\ IdleMapper
    /\ IdleBook
    /\ IdleText
    /\ IdleConvert

IdleISBN ==
    /\ isbnPc = "idle"
    /\ isbnInput = ""
    /\ isbnResult = [valid |-> FALSE, result |-> Undefined, message |-> Undefined]
    /\ barcode = ""

Validate ==
    /\ isbnPc = "input"
    /\ isbnResult' = validate(isbnInput)
    /\ isbnPc' = "validated"
    /\ UNCHANGED <<isbnInput, barcode, yamlVars, mapVars, bookVars,
                   selVars, textVars, convVars>>

Encode ==
    /\ isbnPc = "validated"
    /\ isEAN13Valid(ean13Digits(isbnInput))
    /\ barcode' = encodeEAN13(ean13Digits(isbnInput))
    /\ isbnPc' = "encoded"
    /\ UNCHANGED <<isbnInput, isbnResult, yamlVars, mapVars, bookVars,
                   selVars, textVars, convVars>>

NextISBN == Validate \/ Encode

SpecISBN == InitISBN /\ [][NextISBN]_vars

(***************************************************************************)
(* The YAML scenario: an object is stringified and the text parsed back, or *)
(* the text of a file is parsed; parse runs one loop iteration at a time.  *)
(***************************************************************************)

MaxEntries == 2

MaxLines == 3

YamlKeys == <<"a", "b", "c", "d">>

\* Values of every kind the parser produces: scalars, sequences (also of
\* objects) and one-level mappings.
ValuePool == {
    Str("x"), Str(""), Str("12"), Str("true"), Str("a: b"), Str("l1\nl2"),
    Num("5"), Num("-3"), Bool(TRUE), Bool(FALSE), NullV,
    Arr(<<>>), Arr(<<Str("x"), Str("y")>>), Arr(<<Str("x"), Num("1")>>),
    Arr(<<Obj(<<[k |-> "type", v |-> Str("main")], [k |-> "text", v |-> Str("T")]>>)>>),
    Obj(<<[k |-> "k", v |-> Str("v")]>>),
    Obj(<<[k |-> "k", v |-> Str("v")], [k |-> "n", v |-> Num("2")]>>) }

\* The objects of at most MaxEntries entries over the first keys of YamlKeys.
YamlValues ==
    UNION {{[i \in 1..n |-> [k |-> YamlKeys[i], v |-> f[i]]] : f \in [1..n -> ValuePool]}
              : n \in 0..MaxEntries}

\* Lines of a metadata file: keys with and without a value, at the margin
\* and indented, list items plain and complex, indented properties, the
\* opening of a literal and of a folded block scalar, a line with no
\* key/value pattern, an empty line and the front-matter delimiter.
LinePool == {"a:", "b: 1", "  - x", "  - k: v", "    m: w", "  c: 2", "junk",
             "d: |", "---", "d: >", "  e:", ""}

\* The texts of at most n lines of the pool, each line ended by \n.
RECURSIVE TextsUpTo(_)
TextsUpTo(n) ==
    IF n = 0 THEN {""}
    ELSE LET shorter == TextsUpTo(n - 1) IN
         shorter \cup {t \o l \o "\n" : t \in shorter, l \in LinePool}

InitYAML ==
    /\ \/ /\ yamlFrom = "value"
          /\ yamlPc = "value"
          /\ yamlValue \in YamlValues
          /\ yamlText = ""
       \/ /\ yamlFrom = "text"
          /\ yamlPc = "text"
          /\ yamlValue = <<>>
          /\ yamlText \in TextsUpTo(MaxLines)
    /\ ctx = NoContext
    /\ yamlResult = <<>>
    /\ keyIndent = 0
    /\ IdleISBN
    /\ IdleMapper
    /\ IdleBook
    /\ IdleText
    /\ IdleConvert

\* YAMLParser.stringify(value)
Stringify ==
    /\ yamlPc = "value"
    /\ yamlText' = stringify(yamlValue)
    /\ yamlPc' = "text"
    /\ UNCHANGED <<yamlFrom, yamlValue, ctx, yamlResult, keyIndent, isbnVars, mapVars, bookVars,
                   selVars, textVars, convVars>>

\* YAMLParser.parse(text), up to the loop: an empty text returns {} at once.
BeginParse ==
    /\ yamlPc = "text"
    /\ IF yamlText = ""
       THEN yamlPc' = "done" /\ UNCHANGED ctx
       ELSE yamlPc' = "scan" /\ ctx' = ParseContext(yamlText)
    /\ yamlResult' = <<>>
    /\ UNCHANGED <<yamlFrom, yamlValue, yamlText, keyIndent, isbnVars, mapVars, bookVars,
                   selVars, textVars, convVars>>

\* One iteration of the scan loop.
ScanStep ==
    /\ yamlPc = "scan"
    /\ HasLine(ctx)
    /\ ~ctx.threw
    /\ ctx' = ScanLine(ctx)
    /\ keyIndent' = IF OpensMultiline(ctx)
                    THEN getLineIndent(LineAt(ctx, ctx.lineIndex))
                    ELSE keyIndent
    /\ UNCHANGED <<yamlPc, yamlFrom, yamlValue, yamlText, yamlResult, isbnVars, mapVars, bookVars,
                   selVars, textVars, convVars>>

\* The loop has ended: final processing, return ctx.result.
FinishParse ==
    /\ yamlPc = "scan"
    /\ ~HasLine(ctx)
    /\ ctx' = FinalProcessing(ctx)
    /\ yamlResult' = ctx'.result
    /\ yamlPc' = "done"
    /\ UNCHANGED <<yamlFrom, yamlValue, yamlText, keyIndent, isbnVars, mapVars, bookVars,
                   selVars, textVars, convVars>>

NextYAML == Stringify \/ BeginParse \/ ScanStep \/ FinishParse

SpecYAML == InitYAML /\ [][NextYAML]_vars

\* A step of the scenario is possible: the guards of its four actions.
CanStep ==
    \/ yamlPc \in {"value", "text"}
    \/ yamlPc = "scan" /\ ~(HasLine(ctx) /\ ctx.threw)

\* parse is a sequential function that nothing interrupts: its next step is
\* taken whenever there is one.  This is weak fairness of every step: of
\* the return as WF_vars(FinishParse), and of the steps before it with the
\* condition that a step is possible written out as CanStep.
SpecParseRuns ==
    InitYAML /\ [][NextYAML]_vars
        /\ ([]<>(~CanStep) \/ []<><<NextYAML>>_vars)
        /\ WF_vars(FinishParse)

(***************************************************************************)
(* The mapper scenario: a record is exported, or parsed metadata imported.  *)
(***************************************************************************)

\* An object with the given keys, leaving out the keys whose value is undefined.
RECURSIVE MakeObj(_, _)
MakeObj(keys, values) ==
    IF Len(keys) = 0 THEN <<>>
    ELSE (IF Head(values).t = "undefined" THEN <<>>
          ELSE <<[k |-> Head(keys), v |-> Head(values)]>>)
             \o MakeObj(Tail(keys), Tail(values))

BookInfoKeys == <<"title", "subtitle", "author", "isbnPrint", "isbnEbook",
                  "translation", "publisher">>

\* Per field of the record: absent, empty, or a text.
BookInfoChoices == <<
    {UndefinedV, Str(""), Str("Title")},
    {UndefinedV, Str(""), Str("Sub")},
    {UndefinedV, Str(""), Str("Ann Author")},
    {UndefinedV, Str("9782956579342")},
    {UndefinedV, Str("9782956579359")},
    {UndefinedV, Str("Tr")},
    {UndefinedV, Str("Pub")} >>

RECURSIVE Choices(_)
Choices(options) ==
    IF Len(options) = 0 THEN {<<>>}
    ELSE {<<v>> \o rest : v \in Head(options), rest \in Choices(Tail(options))}

BookInfos == {MakeObj(BookInfoKeys, f) : f \in Choices(BookInfoChoices)}

\* The fields of the record the dialog reads and writes.
RecognizedFields == <<"title", "subtitle", "author", "isbnPrint", "isbnEbook",
                      "printDate", "rights", "translation", "critical", "coverCredit",
                      "originalTitle", "editions", "funding", "price", "language">>

\* The records with one recognized field set, and the record with all of them.
FieldRecords ==
    {<<[k |-> RecognizedFields[i], v |-> Str("Value")]>> : i \in 1..Len(RecognizedFields)}
        \cup {[i \in 1..Len(RecognizedFields) |->
                  [k |-> RecognizedFields[i], v |-> Str("Value")]]}

Entry(k1, v1, k2, v2) == Obj(<<[k |-> k1, v |-> Str(v1)], [k |-> k2, v |-> Str(v2)]>>)

PandocKeys == <<"title", "subtitle", "creator", "author", "identifier", "isbn-ebook",
                "series">>

\* Per field of the parsed metadata: absent, the plain scalar, or the complex
\* sequence of objects.
PandocChoices == <<
    {UndefinedV, Str("Plain Title"),
     Arr(<<Entry("type", "main", "text", "Main")>>),
     Arr(<<Entry("type", "main", "text", "Main"), Entry("type", "subtitle", "text", "Sub")>>),
     Arr(<<Entry("type", "subtitle", "text", "Sub")>>)},
    {UndefinedV, Str("Plain Sub")},
    {UndefinedV, Str("Plain Creator"),
     Arr(<<Entry("role", "author", "text", "Ann")>>),
     Arr(<<Entry("role", "editor", "text", "Ed"), Entry("role", "author", "text", "Ann")>>)},
    {UndefinedV, Str("Plain Author")},
    {UndefinedV,
     Arr(<<Entry("scheme", "ISBN", "text", "9782956579359")>>),
     Arr(<<Entry("scheme", "DOI", "text", "10.1/x"),
           Entry("scheme", "ISBN", "text", "9782956579359")>>)},
    {UndefinedV, Str("9782940426003")},
    {UndefinedV, Str("Series")} >>

PandocDatas == {MakeObj(PandocKeys, f) : f \in Choices(PandocChoices)}

InitMapper ==
    /\ \/ /\ mapPc = "export"
          /\ bookInfo \in BookInfos \cup FieldRecords
          /\ pandocData = <<>>
       \/ /\ mapPc = "import"
          /\ bookInfo = <<>>
          /\ pandocData \in PandocDatas
    /\ yamlData = <<>>
    /\ mapped = <<>>
    /\ IdleISBN
    /\ IdleYAML
    /\ IdleBook
    /\ IdleText
    /\ IdleConvert

\* BookUtils.File.exportYAML, up to the object it hands to stringify.
ExportYAML ==
    /\ mapPc = "export"
    /\ yamlData' = exportYAML(bookInfo)
    /\ mapPc' = "exported"
    /\ UNCHANGED <<bookInfo, pandocData, mapped, isbnVars, yamlVars, bookVars,
                   selVars, textVars, convVars>>

\* PandocMapper.mapToBookCreator(pandocData)
MapToBookCreator ==
    /\ mapPc = "import"
    /\ mapped' = mapToBookCreator(pandocData)
    /\ mapPc' = "imported"
    /\ UNCHANGED <<bookInfo, pandocData, yamlData, isbnVars, yamlVars, bookVars,
                   selVars, textVars, convVars>>

\* The exported mapping read back: mapToBookCreator of what exportYAML built.
ImportExported ==
    /\ mapPc = "exported"
    /\ pandocData' = yamlData
    /\ mapped' = mapToBookCreator(yamlData)
    /\ mapPc' = "reimported"
    /\ UNCHANGED <<bookInfo, yamlData, isbnVars, yamlVars, bookVars,
                   selVars, textVars, convVars>>

NextMapper == ExportYAML \/ MapToBookCreator \/ ImportExported

SpecMapper == InitMapper /\ [][NextMapper]_vars

(***************************************************************************)
(* The import scenario: importYAML parses the text of a metadata file and   *)
(* maps the parsed metadata to the record.                                 *)
(***************************************************************************)

MaxDocLines == 3

\* Lines of the documented file format.
DocLines == {"---", "title: Book Title", "date: \"2023\"",
             "isbn-print: 978-2-9565793-4-7", "isbn-ebook: 978-2-9565793-5-4",
             "rights: \"CC BY-NC-SA 4.0\"", "price: 19.90"}

\* The texts of at most n documented lines, each line ended by \n.
RECURSIVE DocTextsUpTo(_)
DocTextsUpTo(n) ==
    IF n = 0 THEN {""}
    ELSE LET shorter == DocTextsUpTo(n - 1) IN
         shorter \cup {t \o l \o "\n" : t \in shorter, l \in DocLines}

InitImport ==
    /\ yamlFrom = "text"
    /\ yamlPc = "text"
    /\ yamlValue = <<>>
    /\ yamlText \in DocTextsUpTo(MaxDocLines)
    /\ ctx = NoContext
    /\ yamlResult = <<>>
    /\ keyIndent = 0
    /\ mapPc = "parsing"
    /\ bookInfo = <<>>
    /\ yamlData = <<>>
    /\ pandocData = <<>>
    /\ mapped = <<>>
    /\ IdleISBN
    /\ IdleBook
    /\ IdleText
    /\ IdleConvert

\* var result = PandocMapper.mapToBookCreator(yamlData), once parse returned.
ImportParsed ==
    /\ yamlPc = "done"
    /\ mapPc = "parsing"
    /\ pandocData' = yamlResult
    /\ mapped' = mapToBookCreator(yamlResult)
    /\ mapPc' = "imported"
    /\ UNCHANGED <<bookInfo, yamlData, isbnVars, yamlVars, bookVars,
                   selVars, textVars, convVars>>

NextImport == BeginParse \/ ScanStep \/ FinishParse \/ ImportParsed

SpecImport == InitImport /\ [][NextImport]_vars

(***************************************************************************)
(* The generate scenario: a template folder is chosen and classified, then *)
(* Book.generate creates the documents, one loop iteration at a time.      *)
(***************************************************************************)

MaxTemplates == 3

MaxFiles == 3

TemplatePool ==
    {"LIVRE-00-Cover.indd", "LIVRE-01-Introduction_1.indd",
     "LIVRE-02-Frontmatter.indd", "LIVRE-03-Bodymatter.indd",
     "LIVRE-09-Ads.indd", "LIVRE-10-Backcover.indd"}

TemplateFolders == {F \in SUBSET TemplatePool : Cardinality(F) <= MaxTemplates}

MdPool == {"01-a.md", "02-b.md", "10-c.md", "B.md", "a.md"}

MdFolders == {F \in SUBSET MdPool : Cardinality(F) <= MaxFiles}

InitGenerate ==
    /\ genPc = "setup"
    /\ templateFolder = {}
    /\ mdFolder = {}
    /\ injecting = FALSE
    /\ templates = NoTemplates
    /\ allMdFiles = <<>>
    /\ loopIndex = 0
    /\ documents = <<>>
    /\ IdleSelect
    /\ IdleISBN
    /\ IdleYAML
    /\ IdleMapper
    /\ IdleText
    /\ IdleConvert

\* templateFolderBtn.onClick: book.templates = book._classifyTemplatesByOrder(folder)
ChooseTemplateFolder ==
    /\ genPc = "setup"
    /\ \E folder \in TemplateFolders :
          /\ templateFolder' = folder
          /\ templates' = classifyTemplatesByOrder(folder)
    /\ genPc' = "folder"
    /\ UNCHANGED <<mdFolder, injecting, allMdFiles, loopIndex, documents,
                   selVars, textVars, convVars, isbnVars, yamlVars, mapVars>>

\* importBtn.onClick and updateMdOptions: the metadata file names the text
\* folder, and injectMarkdown follows hasInputFiles, which the metadata
\* sets whatever the folder holds.
ImportMarkdownOptions ==
    /\ genPc = "folder"
    /\ mdFolder' \in MdFolders
    /\ injecting' \in BOOLEAN
    /\ genPc' = "ready"
    /\ UNCHANGED <<templateFolder, templates, allMdFiles, loopIndex, documents,
                   selVars, textVars, convVars, isbnVars, yamlVars, mapVars>>

\* The checks of Book.validate that depend on the folders.
validate_Book ==
    /\ injecting => mdFolder # {}
    /\ templates.bodymatter # NoFile

\* generate up to the first loop: it throws where validate fails.
BeginGenerate ==
    /\ genPc = "ready"
    /\ genPc' = IF validate_Book THEN "before" ELSE "invalid"
    /\ loopIndex' = 0
    /\ UNCHANGED <<templateFolder, mdFolder, injecting, templates, allMdFiles,
                   documents, selVars, textVars, convVars, isbnVars, yamlVars, mapVars>>

\* One call of _generateDocument without a chapterIndex.
PlainDocument(template, includeInBook, name) ==
    Document(template, name, includeInBook, NoIndex, injecting,
             getAllMarkdownFilesFromFolder(mdFolder))

\* One iteration of the first loop over templates.before.
GenerateBefore ==
    /\ genPc = "before"
    /\ loopIndex < Len(templates.before)
    /\ documents' = Append(documents,
           PlainDocument(templates.before[loopIndex + 1], TRUE,
                         ReplaceLead(templates.before[loopIndex + 1])))
    /\ loopIndex' = loopIndex + 1
    /\ UNCHANGED <<genPc, templateFolder, mdFolder, injecting, templates,
                   allMdFiles, selVars, textVars, convVars, isbnVars, yamlVars, mapVars>>

\* var allMdFiles = this._getAllMarkdownFilesFromFolder(), after the first loop.
ListMarkdownFiles ==
    /\ genPc = "before"
    /\ loopIndex = Len(templates.before)
    /\ allMdFiles' = getAllMarkdownFilesFromFolder(mdFolder)
    /\ genPc' = "beforeAgain"
    /\ loopIndex' = 0
    /\ UNCHANGED <<templateFolder, mdFolder, injecting, templates, documents,
                   selVars, textVars, convVars, isbnVars, yamlVars, mapVars>>

\* One iteration of the second loop over templates.before.
GenerateBeforeAgain ==
    /\ genPc = "beforeAgain"
    /\ loopIndex < Len(templates.before)
    /\ documents' = Append(documents,
           PlainDocument(templates.before[loopIndex + 1], TRUE,
                         ReplaceLead(templates.before[loopIndex + 1])))
    /\ loopIndex' = loopIndex + 1
    /\ UNCHANGED <<genPc, templateFolder, mdFolder, injecting, templates,
                   allMdFiles, selVars, textVars, convVars, isbnVars, yamlVars, mapVars>>

\* The document of the Markdown file at index m, made from the template
\* selected for its name; none where no template is selected.
ChapterDocuments(md, m, selected) ==
    IF selected = NoFile THEN <<>>
    ELSE <<Document(selected, ChapterName(selected, md), TRUE, m, injecting,
                    getAllMarkdownFilesFromFolder(mdFolder))>>

\* One iteration of the loop over allMdFiles; the loop starts once the
\* second loop over templates.before has ended.
GenerateChapter ==
    /\ \/ genPc = "beforeAgain" /\ loopIndex = Len(templates.before)
       \/ genPc = "chapters"
    /\ LET m == IF genPc = "chapters" THEN loopIndex ELSE 0 IN
       IF m < Len(allMdFiles)
       THEN /\ documents' = documents \o ChapterDocuments(allMdFiles[m + 1], m,
                   selectBestTemplate(allMdFiles[m + 1],
                                      determineTemplateType(allMdFiles[m + 1]),
                                      templates))
            /\ loopIndex' = m + 1
            /\ genPc' = "chapters"
       ELSE /\ genPc' = "after"
            /\ loopIndex' = 0
            /\ UNCHANGED documents
    /\ UNCHANGED <<templateFolder, mdFolder, injecting, templates, allMdFiles,
                   selVars, textVars, convVars, isbnVars, yamlVars, mapVars>>

\* One iteration of the loop over templates.after.
GenerateAfter ==
    /\ genPc = "after"
    /\ loopIndex < Len(templates.after)
    /\ documents' = Append(documents,
           PlainDocument(templates.after[loopIndex + 1], TRUE,
                         ReplaceLead(templates.after[loopIndex + 1])))
    /\ loopIndex' = loopIndex + 1
    /\ UNCHANGED <<genPc, templateFolder, mdFolder, injecting, templates,
                   allMdFiles, selVars, textVars, convVars, isbnVars, yamlVars, mapVars>>

\* The cover, outside the book, and book.save().
GenerateCover ==
    /\ genPc = "after"
    /\ loopIndex = Len(templates.after)
    /\ documents' = IF templates.cover # NoFile
                    THEN Append(documents,
                             PlainDocument(templates.cover, FALSE,
                                           Prefix \o "Cover.indd"))
                    ELSE documents
    /\ genPc' = "done"
    /\ UNCHANGED <<templateFolder, mdFolder, injecting, templates, allMdFiles,
                   loopIndex, selVars, textVars, convVars, isbnVars, yamlVars, mapVars>>

NextGenerate ==
    \/ ChooseTemplateFolder
    \/ ImportMarkdownOptions
    \/ BeginGenerate
    \/ GenerateBefore
    \/ ListMarkdownFiles
    \/ GenerateBeforeAgain
    \/ GenerateChapter
    \/ GenerateAfter
    \/ GenerateCover

SpecGenerate == InitGenerate /\ [][NextGenerate]_vars

(***************************************************************************)
(* The selection scenario: the template of one Markdown file is selected   *)
(* among the classified templates, one step of _selectBestTemplate at a    *)
(* time.                                                                   *)
(***************************************************************************)

SelectPool ==
    {"LIVRE-01-Introduction_1.indd", "LIVRE-02-Frontmatter.indd",
     "LIVRE-03-Bodymatter.indd", "LIVRE-04-Backmatter.indd",
     "LIVRE-07-Bibliographie.indd", "LIVRE-08-Bibliographie-Notes.indd",
     "LIVRE-09-Ads.indd"}

SelectFolders == {F \in SUBSET SelectPool : Cardinality(F) <= MaxTemplates}

SelectNames ==
    {"", "03-introduction.md", "LIVRE-02-Frontmatter.indd",
     "LIVRE-07-Bibliographie.indd", "vol2-03-intro.md", "07-bibliography.md",
     "05-bibliographie_notes.md", "chapter-1.md", "preface-index.md",
     "LIVRE-5-2-annexe.md", "backmatter index.md", "tome-100-200-300-400-fin.md"}

InitSelect ==
    /\ selPc = "type"
    /\ templateFolder \in SelectFolders
    /\ templates = classifyTemplatesByOrder(templateFolder)
    /\ mdFileName \in SelectNames
    /\ templateType = ""
    /\ mdKeywords = <<>>
    /\ allTemplates = <<>>
    /\ tIndex = 0
    /\ scores = <<>>
    /\ bestMatch = NoFile
    /\ bestScore = 0
    /\ selectedTemplate = NoFile
    /\ IdleGenerate
    /\ IdleISBN
    /\ IdleYAML
    /\ IdleMapper
    /\ IdleText
    /\ IdleConvert

\* var templateType = this._determineTemplateType(currentMdFile)
DetermineTemplateType ==
    /\ selPc = "type"
    /\ templateType' = determineTemplateType(mdFileName)
    /\ selPc' = "select"
    /\ UNCHANGED <<mdFileName, mdKeywords, allTemplates, tIndex, scores,
                   bestMatch, bestScore, selectedTemplate, bookVars, isbnVars,
                   yamlVars, mapVars, textVars, convVars>>

\* _selectBestTemplate up to its loop: without a name it returns the
\* bodymatter template at once.
BuildCandidates ==
    /\ selPc = "select"
    /\ IF mdFileName = ""
       THEN /\ selectedTemplate' = templates.bodymatter
            /\ selPc' = "done"
            /\ UNCHANGED <<mdKeywords, allTemplates>>
       ELSE /\ mdKeywords' = extractKeywords(mdFileName)
            /\ allTemplates' = AllTemplates(templates)
            /\ selPc' = "score"
            /\ UNCHANGED selectedTemplate
    /\ UNCHANGED <<mdFileName, templateType, tIndex, scores, bestMatch,
                   bestScore, bookVars, isbnVars, yamlVars, mapVars, textVars, convVars>>

\* The best candidate after the candidate template was given score.
Scored(template, score) ==
    Better([bestMatch |-> bestMatch, bestScore |-> bestScore], template, score)

\* One iteration of the scoring loop.
ScoreTemplate ==
    /\ selPc = "score"
    /\ tIndex < Len(allTemplates)
    /\ scores' = Append(scores,
           ScoreOf(mdKeywords, allTemplates[tIndex + 1], templateType))
    /\ bestMatch' = Scored(allTemplates[tIndex + 1],
           ScoreOf(mdKeywords, allTemplates[tIndex + 1], templateType)).bestMatch
    /\ bestScore' = Scored(allTemplates[tIndex + 1],
           ScoreOf(mdKeywords, allTemplates[tIndex + 1], templateType)).bestScore
    /\ tIndex' = tIndex + 1
    /\ UNCHANGED <<selPc, mdFileName, templateType, mdKeywords, allTemplates,
                   selectedTemplate, bookVars, isbnVars, yamlVars, mapVars, textVars, convVars>>

\* The return of _selectBestTemplate after the loop.
ReturnTemplate ==
    /\ selPc = "score"
    /\ tIndex = Len(allTemplates)
    /\ selectedTemplate' =
           ChooseTemplate([bestMatch |-> bestMatch, bestScore |-> bestScore],
                          templates, templateType)
    /\ selPc' = "done"
    /\ UNCHANGED <<mdFileName, templateType, mdKeywords, allTemplates, tIndex,
                   scores, bestMatch, bestScore, bookVars, isbnVars, yamlVars,
                   mapVars, textVars, convVars>>

NextSelect ==
    \/ DetermineTemplateType
    \/ BuildCandidates
    \/ ScoreTemplate
    \/ ReturnTemplate

SpecSelect == InitSelect /\ [][NextSelect]_vars

(***************************************************************************)
(* The placeholder scenario: a document whose text frames hold             *)
(* placeholders is filled with the metadata of a book.                     *)
(***************************************************************************)

MaxFrames == 2

\* The fields of bookInfo that the scenario leaves empty in turn: the six
\* optional fields and the subtitle.
EmptiableFields ==
    {"translation", "critical", "originalTitle", "coverCredit", "editions",
     "funding", "subtitle"}

EmptySets == {{}} \cup {{f} : f \in EmptiableFields} \cup {EmptiableFields}

FieldOf(empty, field, value) == IF field \in empty THEN "" ELSE value

\* The metadata of a book whose fields in empty are left empty.
InfoWith(empty) ==
    [author |-> "Ann", title |-> "Tale", isbnPrint |-> "978-2-940426-01-0",
     isbnEbook |-> "978-2-940426-02-7", printDate |-> "2024",
     rights |-> "CC", price |-> "9",
     subtitle |-> FieldOf(empty, "subtitle", "Sub"),
     translation |-> FieldOf(empty, "translation", "Bo"),
     critical |-> FieldOf(empty, "critical", "Cy"),
     originalTitle |-> FieldOf(empty, "originalTitle", "Conte"),
     coverCredit |-> FieldOf(empty, "coverCredit", "Di"),
     editions |-> FieldOf(empty, "editions", "2nd"),
     funding |-> FieldOf(empty, "funding", "Fund")]

\* The display options of a new Book, and the same with both labels
\* unchecked.
DisplayOptionsPool ==
    {[showOriginalTitleLabel |-> show, originalTitleLabelText |-> "Original Title: ",
      showCoverCreditLabel |-> show, coverCreditLabelText |-> "Cover: "] :
        show \in BOOLEAN}

\* The contents of the text frames of a template.
FramePool ==
    {"",
     "colophon",
     "<<Book_Title>>\r<<Subtitle>>",
     "<<Translation>>\r<<Critical_Apparatus>>\r<<Book_Author>>",
     "<<Original_Title>>\rimage: <<Cover_Credit>>\r<<Price>>",
     "<<Editions>>\r<<Rights>>",
     "<<Funding>> / <<Funding>>"}

RECURSIVE FrameLists(_)
FrameLists(n) ==
    IF n = 0 THEN {<<>>}
    ELSE FrameLists(n - 1)
         \cup {Append(d, f) : d \in {l \in FrameLists(n - 1) : Len(l) = n - 1},
                              f \in FramePool}

InitText ==
    /\ textPc = "open"
    /\ docInfo = <<>>
    /\ displayOptions = <<>>
    /\ originalFrames = <<>>
    /\ textFrames = <<>>
    /\ frameIndex = 0
    /\ IdleISBN
    /\ IdleYAML
    /\ IdleMapper
    /\ IdleBook
    /\ IdleConvert

\* _generateDocument opens the copy of a template and calls
\* replaceTextPlaceholders(doc, this.info, this.displayOptions).
OpenDocument ==
    /\ textPc = "open"
    /\ \E empty \in EmptySets : docInfo' = InfoWith(empty)
    /\ displayOptions' \in DisplayOptionsPool
    /\ originalFrames' \in FrameLists(MaxFrames)
    /\ textFrames' = originalFrames'
    /\ frameIndex' = 0
    /\ textPc' = "frames"
    /\ UNCHANGED <<isbnVars, yamlVars, mapVars, bookVars, selVars, convVars>>

\* One iteration of for (var i = 0; i < doc.textFrames.length; i++).
ReplaceInFrame ==
    /\ textPc = "frames"
    /\ frameIndex < Len(textFrames)
    /\ textFrames' = [textFrames EXCEPT ![frameIndex + 1] =
                          ProcessFrame(textFrames[frameIndex + 1], docInfo, displayOptions)]
    /\ frameIndex' = frameIndex + 1
    /\ UNCHANGED <<textPc, docInfo, displayOptions, originalFrames,
                   isbnVars, yamlVars, mapVars, bookVars, selVars, convVars>>

\* return true
ReturnReplaced ==
    /\ textPc = "frames"
    /\ frameIndex >= Len(textFrames)
    /\ textPc' = "done"
    /\ UNCHANGED <<docInfo, displayOptions, originalFrames, textFrames, frameIndex,
                   isbnVars, yamlVars, mapVars, bookVars, selVars, convVars>>

NextText == OpenDocument \/ ReplaceInFrame \/ ReturnReplaced

SpecText == InitText /\ [][NextText]_vars

(***************************************************************************)
(* The coercion scenario: convertValue is handed one scalar.               *)
(***************************************************************************)

\* The texts between the delimiters of the inputs.
ConvertCores ==
    {"", " ", "true", "yes", "on", "false", "no", "off", "null", "~", "True",
     "2023", "0123", "0", "0.50", "-1.5", "12abc", "2023-01-15", "abc",
     "1, a", "yes,007"}

\* The delimiters put around them: none, the two quote pairs, the brackets,
\* and a pair that does not match.
ConvertDelimiters ==
    {<<"", "">>, <<"\"", "\"">>, <<"'", "'">>, <<"[", "]">>, <<"\"", "'">>}

ConvertInputs == {d[1] \o c \o d[2] : c \in ConvertCores, d \in ConvertDelimiters}

InitConvert ==
    /\ convPc = "input"
    /\ convInput \in ConvertInputs
    /\ convOutput = NullV
    /\ IdleISBN
    /\ IdleYAML
    /\ IdleMapper
    /\ IdleBook
    /\ IdleText

\* utils.convertValue(value)
Convert ==
    /\ convPc = "input"
    /\ convOutput' = convertValue(convInput)
    /\ convPc' = "converted"
    /\ UNCHANGED <<convInput, isbnVars, yamlVars, mapVars, bookVars, selVars, textVars>>

NextConvert == Convert

SpecConvert == InitConvert /\ [][NextConvert]_vars

(***************************************************************************)
(* Statements about BookUtils.ISBN                                         *)
(***************************************************************************)

Validated == isbnPc \in {"validated", "encoded"}

InputDigits == StripNonDigits(isbnInput)

\* The checksum as the specification words it: weight 1 at even 0-based
\* positions, 3 at odd ones, over the first 12 digits.
SpecChecksum(d) ==
    LET D(i) == DigitVal(Ch(d, i)) IN
    (10 - ((D(1) + 3 * D(2) + D(3) + 3 * D(4) + D(5) + 3 * D(6) + D(7)
              + 3 * D(8) + D(9) + 3 * D(10) + D(11) + 3 * D(12)) % 10)) % 10

HasFiller(s) == \E i \in 1..Len(s) : Ch(s, i) \in {"X", "x"}

\* The placeholder shape of the specification: the prefix 978, then digits and
\* hyphens with one run of filler letters (hyphens may separate the fillers).
SpecPlaceholder(s) ==
    /\ Len(s) > 3
    /\ Slice(s, 1, 3) = "978"
    /\ HasFiller(s)
    /\ \E i \in 4..Len(s) : \E j \in i..Len(s) :
          /\ Ch(s, i) \in {"X", "x"}
          /\ Ch(s, j) \in {"X", "x"}
          /\ AllChars(Slice(s, 4, i - 1), DigitChars \cup {"-"})
          /\ AllChars(Slice(s, i, j), {"X", "x", "-"})
          /\ AllChars(Slice(s, j + 1, Len(s)), DigitChars \cup {"-"})

TookPlaceholderPath ==
    /\ isbnResult.valid
    /\ isbnResult.message = "Placeholder ISBN accepted"

Is13Digits(s) == Len(s) = 13 /\ AllChars(s, DigitChars)

\* C2: an input of exactly 13 digits and no filler letter is valid iff its 13th
\* digit is the checksum of the first 12; a mismatch is invalid and the message
\* names the expected digit, a match returns the 13 digits unchanged.
C2_ThirteenDigitsCheckedByChecksum ==
    (Validated /\ Len(InputDigits) = 13 /\ ~HasFiller(isbnInput)) =>
        LET expected == SpecChecksum(InputDigits)
            matches  == DigitVal(Ch(InputDigits, 13)) = expected
        IN /\ isbnResult.valid <=> matches
           /\ ~matches => isbnResult.message =
                  "Invalid check digit. It should be: " \o DigitChar(expected)
           /\ matches => isbnResult.result = InputDigits

\* C3 (as claimed): every result is invalid with a failure message, or valid
\* with a normalized code of exactly 13 digits.
C3_ValidMeansThirteenDigits ==
    Validated =>
        \/ ~isbnResult.valid /\ isbnResult.message # Undefined
        \/ isbnResult.valid /\ Is13Digits(isbnResult.result)

\* C3 (amended): every result is invalid with a failure message and no code, or
\* valid with a code of exactly 13 digits, or, on the placeholder path, valid
\* with the input returned unchanged (978- then digits, hyphens and X).
C3_ThirteenDigitsOrPlaceholderOrFailure ==
    Validated =>
        \/ /\ ~isbnResult.valid
           /\ isbnResult.message # Undefined
           /\ isbnResult.result = Undefined
        \/ /\ isbnResult.valid
           /\ ~TookPlaceholderPath
           /\ Is13Digits(isbnResult.result)
        \/ /\ TookPlaceholderPath
           /\ isbnResult.result = isbnInput
           /\ Slice(isbnInput, 1, 4) = "978-"
           /\ AllChars(Slice(isbnInput, 5, Len(isbnInput)),
                       DigitChars \cup {"-", "X", "x"})

C3_Witness ==
    /\ isbnPc = "validated"
    /\ isbnInput = "123456789012"
    /\ isbnResult.valid
    /\ isbnResult.result = "1234567890128"

\* C4: an input of exactly 12 digits is valid and normalized to the 12 digits
\* followed by their check digit, a code that passes isEAN13Valid.
C4_TwelveDigitsGetCheckDigit ==
    (Validated /\ Len(InputDigits) = 12) =>
        /\ isbnResult.valid
        /\ isbnResult.result = InputDigits \o DigitChar(SpecChecksum(InputDigits))
        /\ isEAN13Valid(isbnResult.result)

\* C5: the placeholder path is taken exactly for the inputs of the placeholder
\* shape; an input without a filler letter never takes it.
C5_PlaceholderPathNeedsFiller ==
    Validated =>
        /\ TookPlaceholderPath <=> SpecPlaceholder(isbnInput)
        /\ ~HasFiller(isbnInput) => ~TookPlaceholderPath

\* C6: a non-placeholder input with fewer than 12 digits is invalid with the
\* 'at least 12 digits' message, one with more than 13 digits is invalid with
\* the 'format' message.
C6_WrongDigitCountRejected ==
    (Validated /\ ~SpecPlaceholder(isbnInput)) =>
        /\ Len(InputDigits) < 12 =>
              /\ ~isbnResult.valid
              /\ isbnResult.message = "An ISBN must contain at least 12 digits."
        /\ Len(InputDigits) > 13 =>
              /\ ~isbnResult.valid
              /\ isbnResult.message = "Invalid ISBN format."

\* C7: the pattern of a checksum-valid 13-digit code has 95 modules of 0 and 1,
\* starts and ends with 101 and carries the center guard 01010 right after
\* the 3 start modules and the 42 left-hand modules.
C7_BarcodeShape ==
    isbnPc = "encoded" =>
        /\ Len(barcode) = 95
        /\ AllChars(barcode, {"0", "1"})
        /\ Slice(barcode, 1, 3) = "101"
        /\ Slice(barcode, 93, 95) = "101"
        /\ Slice(barcode, 46, 50) = "01010"

C7_Witness ==
    /\ isbnPc = "encoded"
    /\ isbnInput = "123456789012"
    /\ barcode = encodeEAN13("1234567890128")

\* The input is a placeholder: it has the shape the placeholder path
\* accepts and holds a filler letter.
IsPlaceholder(input) ==
    /\ placeholderPattern(input)
    /\ \E i \in 1..Len(input) : Ch(input, i) \in {"X", "x"}

\* The digits are 13 and the last is the checksum of the first 12.
IsChecked13(digits) ==
    /\ Len(digits) = 13
    /\ AllChars(digits, DigitChars)
    /\ DigitVal(Ch(digits, 13))
           = (10 - (WeightedSum(Slice(digits, 1, 12), 12) % 10)) % 10

\* C22: the encoder is called only with a code of exactly 13 digits that
\* is checksum-valid, and an ISBN that is empty, a placeholder, of a wrong
\* length or checksum-invalid never reaches it.
C22_OnlyValidatedCodesEncoded ==
    isbnPc = "encoded" =>
        /\ IsChecked13(ean13Digits(isbnInput))
        /\ isbnInput # ""
        /\ ~IsPlaceholder(isbnInput)
        /\ Len(StripNonDigits(isbnInput)) \in {12, 13}
        /\ Len(StripNonDigits(isbnInput)) = 13 => IsChecked13(StripNonDigits(isbnInput))

(***************************************************************************)
(* Statements about YAMLParser                                             *)
(***************************************************************************)

\* Value equality: same kind; scalars the same text, sequences the same items
\* in order, mappings the same keys with equal values.
RECURSIVE ValueEqual(_, _)
ValueEqual(a, b) ==
    /\ a.t = b.t
    /\ CASE a.t = "array" ->
              /\ Len(a.items) = Len(b.items)
              /\ \A i \in 1..Len(a.items) : ValueEqual(a.items[i], b.items[i])
         [] a.t = "object" ->
              /\ ObjKeys(a.pairs) = ObjKeys(b.pairs)
              /\ \A key \in ObjKeys(a.pairs) :
                    ValueEqual(ObjGet(a.pairs, key), ObjGet(b.pairs, key))
         [] OTHER -> a.s = b.s

\* C1: when an object of strings, numbers, booleans, nulls, sequences and
\* one-level mappings has been stringified and the text parsed, the result is
\* value-equal to the object.
C1_RoundTrip ==
    (yamlPc = "done" /\ yamlFrom = "value")
        => ValueEqual(Obj(yamlResult), Obj(yamlValue))

\* A line that states a key of the mapping: at the left margin, not a comment,
\* not a list item, with the key/value pattern.
IsKeyLine(line) ==
    /\ ~isEmptyOrComment(line)
    /\ getLineIndent(line) = 0
    /\ ~isListItem(line)
    /\ getKeyValuePair(line).ok

\* C8: parse has not thrown when it returns, and every line of the text that
\* states a key has its key in the returned mapping, whatever lines were
\* skipped around it.
C8_KeyLinesContributeTheirKey ==
    (yamlPc = "done" /\ yamlFrom = "text" /\ yamlText # "")
        => /\ ~ctx.threw
           /\ \A i \in 1..Len(ctx.lines) :
                 IsKeyLine(ctx.lines[i])
                     => getKeyValuePair(ctx.lines[i]).key \in ObjKeys(yamlResult)

(***************************************************************************)
(* Statements about the mapping of export and import                       *)
(***************************************************************************)

\* The {kind: ..., text: value} object of a complex form, in a one-item list;
\* no item when the value is empty.
ComplexEntry(kindKey, kind, value) ==
    IF TruthyV(value)
    THEN <<Obj(<<[k |-> kindKey, v |-> Str(kind)], [k |-> "text", v |-> value]>>)>>
    ELSE <<>>

\* C9: the exported mapping of a record with a title or a subtitle has the
\* title sequence of their {type, text} objects and no flat subtitle; that of
\* a record with an author has the creator sequence and no flat author.
C9_ExportUsesComplexShapes ==
    mapPc = "exported"
        => /\ (TruthyV(Prop(bookInfo, "title")) \/ TruthyV(Prop(bookInfo, "subtitle")))
                 => /\ Prop(yamlData, "title")
                          = Arr(ComplexEntry("type", "main", Prop(bookInfo, "title"))
                                \o ComplexEntry("type", "subtitle", Prop(bookInfo, "subtitle")))
                    /\ ~ObjHas(yamlData, "subtitle")
           /\ TruthyV(Prop(bookInfo, "author"))
                 => /\ Prop(yamlData, "creator")
                          = Arr(ComplexEntry("role", "author", Prop(bookInfo, "author")))
                    /\ ~ObjHas(yamlData, "author")

\* The non-empty texts of the entries of a sequence whose kindKey is kind.
TextsOf(value, kindKey, kind) ==
    {PropOf(value.items[i], "text") : i \in
        {j \in 1..Len(value.items) :
            /\ PropOf(value.items[j], kindKey) = Str(kind)
            /\ TruthyV(PropOf(value.items[j], "text"))}}

\* The field of the record is the text of an entry of that kind, when the
\* sequence has one.
TakenFrom(field, value, kindKey, kind) ==
    (isArray(value) /\ TextsOf(value, kindKey, kind) # {})
        => Prop(mapped, field) \in TextsOf(value, kindKey, kind)

\* The field of the record is the plain scalar, when there is one and the
\* complex form is absent.
PlainUsed(field, complex, plain) ==
    (~TruthyV(complex) /\ TruthyV(plain)) => Prop(mapped, field) = plain

\* C10: the imported record takes title and subtitle from the main and
\* subtitle entries of a title sequence, the author from the author entry of a
\* creator sequence, the ebook ISBN from the ISBN entry of an identifier
\* sequence, and the plain scalars where the complex form is absent.
C10_ImportReadsComplexThenPlain ==
    mapPc = "imported"
        => /\ TakenFrom("title", Prop(pandocData, "title"), "type", "main")
           /\ TakenFrom("subtitle", Prop(pandocData, "title"), "type", "subtitle")
           /\ TakenFrom("author", Prop(pandocData, "creator"), "role", "author")
           /\ TakenFrom("isbnEbook", Prop(pandocData, "identifier"), "scheme", "ISBN")
           /\ (~isArray(Prop(pandocData, "title")) /\ TruthyV(Prop(pandocData, "title")))
                 => Prop(mapped, "title") = Prop(pandocData, "title")
           /\ (~isArray(Prop(pandocData, "title")) /\ TruthyV(Prop(pandocData, "subtitle")))
                 => Prop(mapped, "subtitle") = Prop(pandocData, "subtitle")
           /\ PlainUsed("author", Prop(pandocData, "creator"), Prop(pandocData, "author"))
           /\ PlainUsed("isbnEbook", Prop(pandocData, "identifier"),
                        Prop(pandocData, "isbn-ebook"))

\* C11: a recognized field that is non-empty in a record has the same value
\* in the record obtained by exporting the record and importing the result.
C11_ExportThenImportKeepsFields ==
    mapPc = "reimported"
        => \A i \in 1..Len(RecognizedFields) :
              TruthyV(Prop(bookInfo, RecognizedFields[i]))
                  => Prop(mapped, RecognizedFields[i]) = Prop(bookInfo, RecognizedFields[i])

\* The keys of the parsed metadata that mapToBookCreator reads.
ImportedKeys ==
    {"title", "subtitle", "creator", "author", "identifier", "isbn-print",
     "isbn-ebook", "published-print", "date"}
        \cup {DirectFields[i][1] : i \in 1..Len(DirectFields)}

\* C12: a field outside the mapping table is in the exported mapping with
\* its key and value, and a key of the parsed metadata outside the table is
\* in the imported record with its key and value.
C12_UnmappedFieldsPassThrough ==
    /\ mapPc = "exported"
          => \A i \in 1..Len(bookInfo) :
                (~IsMappedField(bookInfo[i].k) /\ TruthyV(bookInfo[i].v))
                    => Prop(yamlData, bookInfo[i].k) = bookInfo[i].v
    /\ mapPc = "imported"
          => \A i \in 1..Len(pandocData) :
                pandocData[i].k \notin ImportedKeys
                    => Prop(mapped, pandocData[i].k) = pandocData[i].v

\* The values written in the file on the lines with the given key.
WrittenFor(key) ==
    {getKeyValuePair(ctx.lines[i]).value : i \in
        {j \in 1..Len(ctx.lines) :
            /\ getKeyValuePair(ctx.lines[j]).ok
            /\ getKeyValuePair(ctx.lines[j]).key = key}}

\* The field of the imported record is the text written for the key.
ImportedAsWritten(field, key) ==
    WrittenFor(key) # {}
        => /\ Prop(mapped, field).t = "string"
           /\ Prop(mapped, field).s \in WrittenFor(key)

\* C13: after the import of a file in the documented format, isbnPrint and
\* isbnEbook are the identifiers as written on the isbn-print and isbn-ebook
\* lines, every digit kept.
C13_ImportKeepsIsbnText ==
    mapPc = "imported"
        => /\ ImportedAsWritten("isbnPrint", "isbn-print")
           /\ ImportedAsWritten("isbnEbook", "isbn-ebook")

(***************************************************************************)
(* Statements about the Markdown files and the documents of Book.generate  *)
(***************************************************************************)

\* a comes before b in the list.
Precedes(list, a, b) ==
    \E i, j \in DOMAIN list : i < j /\ list[i] = a /\ list[j] = b

\* The list holds every name of the set once and nothing else.
IsPermutation(list, names) ==
    /\ Len(list) = Cardinality(names)
    /\ Elements(list) = names

\* a is before b once both are lowercased.
CaseFoldedBefore(a, b) == StringLessFrom(toLowerCase(a), toLowerCase(b), 1)

Listed == genPc \in {"beforeAgain", "chapters", "after", "done"}

\* C14: the list of Markdown files generate walks is a permutation of the
\* folder's files in which a precedes b whenever lowercase(a) is less than
\* lowercase(b).
C14_CaseFoldedOrder ==
    Listed =>
        /\ IsPermutation(allMdFiles, mdFolder)
        /\ \A a, b \in mdFolder :
               CaseFoldedBefore(a, b) => Precedes(allMdFiles, a, b)

\* The number of documents the file was injected into.
InjectionsOf(file) ==
    Cardinality({i \in DOMAIN documents : documents[i].content = file})

\* C15: once generate has run with the injection on, the document made for
\* the file at ordinal m, from the template selected for that file's name,
\* holds the content of that file; every Markdown file was injected into
\* exactly one document; and no document of the before, after or cover
\* templates received the content of a Markdown file.
C15_FilesPairedByOrdinal ==
    (genPc = "done" /\ injecting) =>
        /\ \A i \in DOMAIN documents :
               documents[i].chapterIndex # NoIndex =>
                   /\ documents[i].content = allMdFiles[documents[i].chapterIndex + 1]
                   /\ documents[i].template =
                          selectBestTemplate(documents[i].content,
                              determineTemplateType(documents[i].content), templates)
        /\ \A file \in mdFolder : InjectionsOf(file) = 1
        /\ \A i \in DOMAIN documents :
               documents[i].chapterIndex = NoIndex => documents[i].content = NoFile

\* The number of places of the templates object that hold the file.
PlacesOf(t, file) ==
    Cardinality({slot \in {"cover", "frontmatter", "bodymatter", "backmatter"} :
                     t[slot] = file})
    + Cardinality({i \in DOMAIN t.before : t.before[i] = file})
    + Cardinality({i \in DOMAIN t.after : t.after[i] = file})
    + Cardinality({i \in DOMAIN t.specialized : t.specialized[i] = file})

\* C16: once the template folder is classified, every file of the folder
\* is in exactly one category of the templates object: none is dropped and
\* none is in two categories.
C16_EveryTemplateInOneCategory ==
    genPc # "setup" =>
        \A file \in templateFolder : PlacesOf(templates, file) = 1

\* The documents generate handed to the book, in order.
BookDocuments == SelectSeq(documents, LAMBDA d : d.includeInBook)

\* The documents of the list from position first on are made, one each and
\* in order, from the templates of the list given.
MadeFrom(list, first, templateList) ==
    \A i \in DOMAIN templateList :
        /\ list[first + i].template = templateList[i]
        /\ list[first + i].chapterIndex = NoIndex

IsSubstring(term, name) ==
    \E i \in 1..Len(name) : Slice(name, i, i + Len(term) - 1) = term

\* Some term of the list occurs in the lowercased name.
MatchesList(name, terms) ==
    \E term \in terms : IsSubstring(term, toLowerCase(name))

Typed == selPc \in {"select", "score", "done"}

MaxScore == IF scores = <<>> THEN 0
            ELSE CHOOSE x \in Elements(scores) : \A y \in Elements(scores) : y <= x

\* The first candidate reached that has the highest score.
FirstBest ==
    allTemplates[CHOOSE i \in DOMAIN scores :
                     /\ scores[i] = MaxScore
                     /\ \A j \in 1..(i - 1) : scores[j] < MaxScore].file

\* The template of the expected category where the category is frontmatter
\* or backmatter and has a template, the bodymatter template otherwise.
ByCategory ==
    IF templateType \in {"frontmatter", "backmatter"} /\ templates[templateType] # NoFile
    THEN templates[templateType]
    ELSE templates.bodymatter

\* C18: _selectBestTemplate returns the first candidate reached that has
\* the highest score when that score is at least 60, a later candidate of
\* equal score never replacing it; otherwise it returns the template of
\* the expected category (frontmatter or backmatter) when there is one and
\* the bodymatter template in every other case.  A file of type
\* frontmatter with the only keyword introduction scores 30 against a
\* frontmatter template of keyword frontmatter and, no score reaching 60,
\* gets the frontmatter template.
C18_BestScoreOrFallback ==
    (selPc = "done" /\ mdFileName # "") =>
        /\ Len(scores) = Len(allTemplates)
        /\ selectedTemplate = IF MaxScore >= 60 THEN FirstBest ELSE ByCategory
        /\ ( /\ templateType = "frontmatter"
             /\ mdKeywords = <<"introduction">>
             /\ templates.frontmatter = "LIVRE-02-Frontmatter.indd" )
           => /\ scores[1] = 30
              /\ MaxScore < 60 => selectedTemplate = "LIVRE-02-Frontmatter.indd"

\* Two candidates had the same highest score, of at least 60, and the one
\* reached first was returned.
C18_Witness ==
    /\ selPc = "done"
    /\ MaxScore >= 60
    /\ \E i, j \in DOMAIN scores :
           /\ i < j
           /\ scores[i] = MaxScore
           /\ scores[j] = MaxScore
           /\ selectedTemplate = allTemplates[i].file
           /\ allTemplates[j].file # allTemplates[i].file

\* The points of one pair of keywords: 60 for equal keywords, else 30 when
\* one contains the other, else 15 when the pair is in the synonym table.
PairPoints(a, b) ==
    IF a = b THEN 60
    ELSE IF IsSubstring(a, b) \/ IsSubstring(b, a) THEN 30
    ELSE IF b \in synonyms(a) \/ a \in synonyms(b) THEN 15
    ELSE 0

\* The sum of the points of a set of pairs of keyword positions.
RECURSIVE SumOfPairs(_, _, _)
SumOfPairs(pairs, contentKw, templateKw) ==
    IF pairs = {} THEN 0
    ELSE LET p == CHOOSE q \in pairs : TRUE IN
         PairPoints(contentKw[p[1]], templateKw[p[2]])
             + SumOfPairs(pairs \ {p}, contentKw, templateKw)

\* keywordSum for the candidate.
KeywordSumOf(candidate) ==
    SumOfPairs((DOMAIN mdKeywords) \X (DOMAIN candidate.keywords),
               mdKeywords, candidate.keywords)

\* categoryTerm for the candidate.
CategoryTermOf(candidate) ==
    IF candidate.type = templateType THEN 30
    ELSE IF candidate.type = "specialized" THEN 20
    ELSE 0

\* C19: every score _calculateMatchScore returned is categoryTerm +
\* min(70, keywordSum), where categoryTerm is 30 for a template of the
\* expected type, else 20 for a specialized template, else 0, and
\* keywordSum adds the points of every pair of a content keyword and a
\* template keyword; it is an integer from 0 to 100.
C19_ScoreFormulaAndRange ==
    \A i \in DOMAIN scores :
        /\ scores[i] = CategoryTermOf(allTemplates[i])
                       + Min(70, KeywordSumOf(allTemplates[i]))
        /\ scores[i] \in 0..100

\* A candidate was scored whose pairs add up to more than 70, and the cap
\* was applied.
C19_Witness ==
    \E i \in DOMAIN scores :
        /\ KeywordSumOf(allTemplates[i]) > 70
        /\ scores[i] = CategoryTermOf(allTemplates[i]) + 70

\* A keyword as the statement describes it: lowercase, longer than 2
\* characters, without a separator, and a part of the lowercased name.
IsKeywordOf(word, name) ==
    /\ toLowerCase(word) = word
    /\ Len(word) > 2
    /\ \A i \in 1..Len(word) : Ch(word, i) \notin Separators
    /\ IsSubstring(word, toLowerCase(name))

\* The position of the '-' that ends the last '-number-' group of the
\* groups that start at the '-' at position p; p itself without a group.
RECURSIVE EndOfGroups(_, _)
EndOfGroups(s, p) ==
    IF /\ Ch(s, p) = "-"
       /\ RunFrom(s, DigitChars, p + 1) > 0
       /\ Ch(s, p + 1 + RunFrom(s, DigitChars, p + 1)) = "-"
    THEN EndOfGroups(s, p + 1 + RunFrom(s, DigitChars, p + 1))
    ELSE p

\* The length of the series prefix of the statement: letters and digits
\* followed by one or more '-number-' groups; 0 without such a prefix.
StatedPrefixOf(s, l) ==
    IF l = 0 \/ EndOfGroups(s, l + 1) = l + 1 THEN 0 ELSE EndOfGroups(s, l + 1)

StatedPrefixLen(s) == StatedPrefixOf(s, RunFrom(s, LowerLetters \cup DigitChars, 1))

\* The keywords of the statement: the long tokens of what follows the
\* series prefix and a 'digits-' prefix.
StatedKeywords(name) ==
    LongWords(SplitWords(
        StripNumber(Drop(DropSuffix(DropSuffix(toLowerCase(name), ".indd"), ".md"),
                         StatedPrefixLen(DropSuffix(DropSuffix(toLowerCase(name),
                                                               ".indd"), ".md")))),
        1, ""))

Extracted == selPc \in {"score", "done"} /\ mdFileName # ""

\* C20 as stated: the keywords of a name are lowercase tokens longer than 2
\* characters without a separator, taken after the series prefix (letters
\* and digits followed by one or more '-number-' groups) and a 'digits-'
\* prefix were stripped, so that no token of the prefix is returned.
C20_SeriesPrefixStripped ==
    Extracted =>
        /\ \A i \in DOMAIN mdKeywords : IsKeywordOf(mdKeywords[i], mdFileName)
        /\ mdKeywords = StatedKeywords(mdFileName)

\* C20, amended: the keywords of a name are lowercase tokens longer than 2
\* characters without a separator, parts of the lowercased name.  The
\* prefix stripped is made of letters only, followed by '-number-' and at
\* most one more 'number-' group, and then one 'digits-' prefix:
\* 03-introduction.md gives introduction, LIVRE-02-Frontmatter.indd gives
\* frontmatter and LIVRE-5-2-annexe.md gives annexe, but a prefix with a
\* digit in its first part is kept (vol2-03-intro.md gives vol2, intro) and
\* so is a number of more than 2 digits from the fourth group on
\* (tome-100-200-300-400-fin.md gives 400, fin).
C20_LettersPrefixStripped ==
    Extracted =>
        /\ \A i \in DOMAIN mdKeywords : IsKeywordOf(mdKeywords[i], mdFileName)
        /\ \A t \in DOMAIN allTemplates :
               \A i \in DOMAIN allTemplates[t].keywords :
                   IsKeywordOf(allTemplates[t].keywords[i], allTemplates[t].file)
        /\ mdFileName = "03-introduction.md" => mdKeywords = <<"introduction">>
        /\ mdFileName = "LIVRE-02-Frontmatter.indd" => mdKeywords = <<"frontmatter">>
        /\ mdFileName = "LIVRE-5-2-annexe.md" => mdKeywords = <<"annexe">>
        /\ mdFileName = "vol2-03-intro.md" => mdKeywords = <<"vol2", "intro">>
        /\ mdFileName = "tome-100-200-300-400-fin.md" => mdKeywords = <<"400", "fin">>
        /\ (SeriesPrefixLen(toLowerCase(mdFileName)) = StatedPrefixLen(toLowerCase(mdFileName)))
               => mdKeywords = StatedKeywords(mdFileName)

\* The keywords of a name whose prefix holds a digit were extracted.
C20_Witness ==
    /\ selPc = "done"
    /\ mdFileName = "vol2-03-intro.md"
    /\ mdKeywords = <<"vol2", "intro">>
    /\ allTemplates # <<>>

(***************************************************************************)
(* Statements about replaceTextPlaceholders                                *)
(***************************************************************************)

\* The optional fields of the README.
OptionalPlaceholders ==
    {"<<Critical_Apparatus>>", "<<Translation>>", "<<Original_Title>>",
     "<<Cover_Credit>>", "<<Editions>>", "<<Funding>>"}

\* The lines of the contents of a text frame; an empty frame has none.
LinesOf(contents) == IF contents = "" THEN <<>> ELSE SplitBreaks(contents, 1, 1)

\* The line holds a placeholder of P whose field is empty.
HoldsEmptyOf(line, P) ==
    \E placeholder \in P :
        /\ IsSubstring(placeholder, line)
        /\ PlaceholderValue(placeholder, docInfo, displayOptions) = ""

\* The frame lost exactly its lines that hold a placeholder of P whose
\* field is empty: no such placeholder is left, and no line took the place
\* of a removed one.
LinesRemoved(before, after, P) ==
    /\ Len(LinesOf(after))
         = Cardinality({j \in DOMAIN LinesOf(before) : ~HoldsEmptyOf(LinesOf(before)[j], P)})
    /\ \A j \in DOMAIN LinesOf(after) : ~HoldsEmptyOf(LinesOf(after)[j], P)

\* C21: when the field of one of the six optional placeholders is empty,
\* replaceTextPlaceholders removes the whole line that holds the
\* placeholder: the frame keeps neither the placeholder nor an empty line
\* in its place.
C21_EmptyOptionalLineRemoved ==
    textPc = "done" =>
        \A i \in DOMAIN textFrames :
            LinesRemoved(originalFrames[i], textFrames[i], OptionalPlaceholders)

\* C30: after replaceTextPlaceholders no text frame holds a recognized
\* placeholder or the internal marker, however often and in whatever
\* combination the placeholders occurred.
C30_NoPlaceholderLeft ==
    textPc = "done" =>
        \A i \in DOMAIN textFrames :
            /\ ~IsSubstring(EmptyMarker, textFrames[i])
            /\ \A k \in DOMAIN PlaceholderKeys :
                   ~IsSubstring(PlaceholderKeys[k], textFrames[i])

(***************************************************************************)
(* Statements about convertValue                                           *)
(***************************************************************************)

\* The text, after an optional sign, is digits with at most one point and
\* at least one digit: the whole of it is the text of a number.
IsFloatText(value) ==
    LET body == IF Ch(value, 1) \in {"-", "+"} THEN Slice(value, 2, Len(value)) ELSE value
    IN /\ body # ""
       /\ AllChars(body, DigitChars \cup {"."})
       /\ HasChar(body, DigitChars)
       /\ Cardinality({i \in 1..Len(body) : Ch(body, i) = "."}) <= 1

\* The first and the last character are the same quote.
QuotePair(value) ==
    \E q \in {"\"", "'"} : Ch(value, 1) = q /\ Ch(value, Len(value)) = q

\* The coercion as it is stated, rule by rule in the stated precedence.
RECURSIVE StatedCoercion(_)
StatedCoercion(value) ==
    IF trim(value) = "" THEN Str("")
    ELSE IF value \in {"true", "yes", "on"} THEN Bool(TRUE)
    ELSE IF value \in {"false", "no", "off"} THEN Bool(FALSE)
    ELSE IF value \in {"null", "~"} THEN NullV
    ELSE IF IsFloatText(value) /\ ~ZeroPadded(value) THEN Num(parseFloat(value))
    ELSE IF QuotePair(value) THEN Str(Slice(value, 2, Len(value) - 1))
    ELSE IF Ch(value, 1) = "[" /\ Ch(value, Len(value)) = "]"
    THEN Arr([i \in DOMAIN SplitComma(Slice(value, 2, Len(value) - 1)) |->
                StatedCoercion(trim(SplitComma(Slice(value, 2, Len(value) - 1))[i]))])
    ELSE Str(value)

\* C26: convertValue returns a value for every string, by the first rule
\* that applies: empty, true, false, null, a number (a float that is not
\* zero-padded), the contents of a quote pair, the coerced elements of a
\* bracket pair, and else the string unchanged.
C26_CoercionPrecedence ==
    convPc = "converted" => convOutput = StatedCoercion(convInput)

(***************************************************************************)
(* Statements about the modes of YAMLParser.parse                          *)
(***************************************************************************)

\* The modes that are open in a context.
OpenModes(c) ==
    {mode \in {"inList", "inObject", "inMultiline", "inComplexList"} : c[mode]}

\* What the open mode of a context has collected for its key.
Collected(c) ==
    IF c.inList THEN Arr(c.currentList)
    ELSE IF c.inObject THEN Obj(c.currentObject)
    ELSE Str(c.multilineValue)

\* One iteration of the scan loop replaces the pending key of an open mode.
KeyReplaced ==
    /\ yamlPc = "scan"
    /\ OpenModes(ctx) # {}
    /\ ctx.currentKey # NullKey
    /\ ctx'.currentKey \notin {NullKey, ctx.currentKey}

\* C23: while parse scans, at most one of the modes (sequence, nested
\* mapping, multiline scalar, complex item) is open, and when the key of a
\* next entry replaces the pending key of the open mode, that key has been
\* bound to what the mode collected.
C23_OneModeAndKeysBound ==
    /\ [](yamlPc = "scan" => Cardinality(OpenModes(ctx)) <= 1)
    /\ [][KeyReplaced =>
            /\ ObjHas(ctx'.result, ctx.currentKey)
            /\ ObjGet(ctx'.result, ctx.currentKey) = Collected(ctx)]_vars

(***************************************************************************)
(* Statements about the sequences of YAMLParser.parse                      *)
(***************************************************************************)

\* The line the scan loop is at.
ScannedLine == LineAt(ctx, ctx.lineIndex)

\* The scan loop is at a line that is neither empty nor a comment.
Scanning ==
    /\ yamlPc = "scan"
    /\ HasLine(ctx)
    /\ ~ctx.threw
    /\ ~isEmptyOrComment(ScannedLine)

\* The number of lines after the scanned one that continue its item: the
\* lines up to the first that is an item or is not indented more than it.
ContinuationLines ==
    LET continues(i) == /\ ~isListItem(LineAt(ctx, i))
                        /\ getLineIndent(LineAt(ctx, i)) > getLineIndent(ScannedLine)
        rest == Len(ctx.lines) - ctx.lineIndex - 1
    IN CHOOSE n \in 0..rest :
           /\ \A i \in 1..n : continues(ctx.lineIndex + i)
           /\ n < rest => ~continues(ctx.lineIndex + n + 1)

\* The mapping seeded with the pairs of the first n lines from the i-th on
\* that have the key/value pattern, a later pair replacing an earlier one of
\* the same key.
RECURSIVE PairsOfLines(_, _, _)
PairsOfLines(seed, i, n) ==
    IF n = 0 THEN seed
    ELSE PairsOfLines(IF getKeyValuePair(LineAt(ctx, i)).ok
                      THEN ObjSet(seed, getKeyValuePair(LineAt(ctx, i)).key,
                                  convertValue(getKeyValuePair(LineAt(ctx, i)).value))
                      ELSE seed,
                      i + 1, n - 1)

\* The item of the scanned line as it is stated: a mapping if what follows
\* the dash is k: v, the coerced scalar otherwise.
StatedItem ==
    LET remainder == StripDash(ScannedLine) IN
    IF LooksLikePair(remainder)
    THEN Obj(PairsOfLines(<<[k |-> getKeyValuePair(remainder).key,
                             v |-> convertValue(getKeyValuePair(remainder).value)]>>,
                          ctx.lineIndex + 1, ContinuationLines))
    ELSE convertValue(remainder)

\* The lines an item takes: its own and, for a mapping, its continuation.
ItemLines == IF LooksLikePair(StripDash(ScannedLine)) THEN 1 + ContinuationLines ELSE 1

\* The context with the sequence bound to its key and the mode closed.
SequenceBound ==
    [ctx EXCEPT !.result = ObjSet(@, ctx.currentKey, Arr(ctx.currentList)),
                !.inList = FALSE,
                !.currentList = <<>>,
                !.currentKey = NullKey]

\* An item is appended to the sequence, which stays open under its key.
ItemAppended ==
    /\ ctx'.inList
    /\ ctx'.currentKey = ctx.currentKey
    /\ ctx'.currentList = Append(ctx.currentList, StatedItem)
    /\ ctx'.lineIndex = ctx.lineIndex + ItemLines
    /\ ctx'.result = ctx.result

\* The sequence stays open under its key with the items it has.
SequenceKept ==
    /\ ctx'.inList
    /\ ctx'.currentKey = ctx.currentKey
    /\ ctx'.currentList = ctx.currentList

\* C24: in a sequence each item line appends its item in source order (an
\* item k: v as a mapping of that pair and of the pairs of the following
\* lines indented more than the dash that are not items); the first line
\* that is not an item and is not indented more than the opening line ends
\* the sequence, which is bound to its key, and is then processed as an
\* ordinary line; until then the sequence stays bound for its key.
C24_SequenceItemsAndEnd ==
    [][Scanning /\ ctx.inList =>
          IF isListItem(ScannedLine) THEN ItemAppended
          ELSE IF getLineIndent(ScannedLine) <= ctx.currentIndent
          THEN ctx' = ScanLine(SequenceBound)
          ELSE SequenceKept]_vars

(***************************************************************************)
(* Statements about the multiline scalars of YAMLParser.parse              *)
(***************************************************************************)

\* The multiline scalar with the scanned line joined to it: by a carriage
\* return in literal mode, by a space in folded mode.
Continued ==
    IF ctx.multilineValue = "" THEN trim(ScannedLine)
    ELSE ctx.multilineValue \o (IF ctx.literalBlock THEN "\r" ELSE " ") \o trim(ScannedLine)

\* The context with the multiline scalar committed and the mode closed.
BlockCommitted ==
    [ctx EXCEPT !.result = ObjSet(@, ctx.currentKey, Str(ctx.multilineValue)),
                !.inMultiline = FALSE,
                !.literalBlock = FALSE,
                !.currentKey = NullKey,
                !.multilineValue = ""]

\* The step on a line scanned in a multiline scalar whose continuation
\* lines are those indented by at least least columns: such a line is joined
\* to the scalar, any other commits the scalar and is then processed as an
\* ordinary line.
BlockStep(least) ==
    IF getLineIndent(ScannedLine) >= least
    THEN ctx' = [ctx EXCEPT !.multilineValue = Continued, !.lineIndex = @ + 1]
    ELSE ctx' = ScanLine(BlockCommitted)

\* A key line opens a multiline scalar: it is empty, and literal only for |.
BlockOpened ==
    /\ ctx'.currentKey = getKeyValuePair(ScannedLine).key
    /\ ctx'.multilineValue = ""
    /\ ctx'.literalBlock = (getKeyValuePair(ScannedLine).value = "|")

\* C25: a multiline scalar is continued exactly by the lines indented at
\* least 2 columns more than its key line, whose trimmed texts are joined by
\* a carriage return in literal mode (|) and by a space in folded mode (> or
\* an empty value); the first line that fails the test commits the scalar
\* and is then processed as an ordinary line.
C25_BlockContinuedByDeeperLines ==
    [][/\ Scanning /\ OpensMultiline(ctx) => BlockOpened
       /\ Scanning /\ OpenModes(ctx) = {"inMultiline"} => BlockStep(keyIndent + 2)]_vars

(***************************************************************************)
(* Statements about the end of the input of YAMLParser.parse               *)
(***************************************************************************)

\* The key of the line added after the text: no line of the model has it.
ClosingKey == "zz"

\* The text followed by one more line, at the margin, of the form k: v.
WithClosingLine(text) ==
    (IF Ch(text, Len(text)) = "\n" THEN text ELSE text \o "\n")
        \o ClosingKey \o ": 1\n"

\* parse has returned the result of a text that it left with a mode open.
EndedInMode ==
    /\ yamlPc = "done"
    /\ yamlText # ""
    /\ ~ctx.threw
    /\ OpenModes(ctx) # {}

\* C27: at the end of the input a sequence, nested mapping or multiline
\* scalar that is still open is flushed: its key is bound in the result to
\* what was collected, and the result is the one parse returns for the same
\* text followed by one more line k: v at the margin, but for k.
C27_OpenModeFlushedAtEnd ==
    EndedInMode =>
        /\ ObjHas(yamlResult, ctx.currentKey)
        /\ ObjGet(yamlResult, ctx.currentKey) = Collected(ctx)
        /\ yamlResult = ObjDelete(parse(WithClosingLine(yamlText)), ClosingKey)

(***************************************************************************)
(* Statements about the termination of YAMLParser.parse                    *)
(***************************************************************************)

\* C28: parse terminates on every input: each iteration of the scan loop,
\* the look-ahead of a complex item and the exit of a mode that processes
\* its line again included, leaves the line index greater than it found
\* it and within the lines, so that there is at most one iteration per
\* line and parse returns.
C28_ParseTerminates ==
    /\ [][ScanStep => /\ ctx.lineIndex < ctx'.lineIndex
                      /\ ctx'.lineIndex <= Len(ctx.lines)]_vars
    /\ (yamlPc = "text") ~> (yamlPc = "done")

\* parse has returned, at the end of the lines, after a look-ahead took the
\* continuation line of a complex item.
C28_Witness ==
    /\ yamlPc = "done"
    /\ ctx.lineIndex = Len(ctx.lines)
    /\ \E i \in DOMAIN yamlResult :
          /\ yamlResult[i].v.t = "array"
          /\ \E j \in DOMAIN yamlResult[i].v.items :
                Len(yamlResult[i].v.items[j].pairs) >= 2

====
